---- MODULE Spec2Model ----
(***************************************************************************)
(* Threaded comments and voting of the threads client                      *)
(* (src/src/components/PostDetail.tsx, PostFeed/PostCard in                *)
(* src/src/components/TrendingPage.tsx), over the record store the client  *)
(* calls (list / create / update / delete).                                *)
(*                                                                         *)
(* The specifications share the variables:                                 *)
(*   SpecTree  buildCommentTree applied to bounded flat comment lists      *)
(*   Spec      one user session, one handler running at a time, every     *)
(*             backend call of a handler a separate step that may fail     *)
(*   SpecVote  vote handlers of the post-detail view and of the home feed  *)
(*             overlapping in time (two handlers in flight)                *)
(*   SpecClients  a second client commenting on the same post              *)
(*   SpecDepth the session of Spec on a post that holds a chain of replies *)
(*             reaching the depth cap                                      *)
(*   SpecLoad  loadPostAndComments on a post that may be missing, with the *)
(*             fairness of a store that answers every call                 *)
(*   SpecTrending, SpecNotify, SpecCommunity, SpecCreate, SpecModeration   *)
(*             the trending page, the notification centre, joining and     *)
(*             leaving a community, the create-post form and the           *)
(*             moderation dashboard, each mounted on its own               *)
(***************************************************************************)
EXTENDS Integers, Sequences, FiniteSets, TLC

\* ------------------------------------------------------------------ bounds
MaxLen == 4          \* longest flat list given to buildCommentTree (SpecTree)
MaxWrites == 3       \* Spec: records (votes, comments) created in a run
MaxClicks == 3       \* SpecVote: vote buttons clicked in a run
MaxChain == 11       \* SpecDepth: length of the reply chain the run starts from
MaxNew == 1          \* SpecDepth, SpecClients: comments added in a run
MaxFetched == 31     \* SpecTrending: most posts the trending page fetches
MaxNotifications == 2 \* SpecNotify: notifications of the user in the store
MaxMarks == 3        \* SpecNotify: markNotificationAsRead calls in flight at once
MaxMembers == 2      \* SpecCommunity, SpecCreate: membership records created in a run
MaxPosts == 2        \* SpecCommunity, SpecCreate: posts created in a run
MaxStored == 2       \* SpecLoad: comments of the post in the store

\* ------------------------------------------------------- values and records
NoParent == 0        \* parentId: null (falsy in `if (comment.parentId)`)
NotBuilt == [roots |-> <<>>, replies |-> <<>>, node |-> <<>>, written |-> {},
             built |-> FALSE]

Min(a, b) == IF a < b THEN a ELSE b

SeqToSet(s) == {s[i] : i \in 1..Len(s)}

VARIABLES
    treeInput,       \* SpecTree: the flat list handed to buildCommentTree
    treeOut,         \* SpecTree: what buildCommentTree returned (NotBuilt before the call)
    \* the record store (blink.db)
    dbVotes,         \* votes collection: a set of vote records
    dbComments,      \* comments of the post, in createdAt order
    dbPosts,         \* posts collection: id -> post record
    nextVoteId,      \* ids handed out so far (`vote_${Date.now()}_${random}` is fresh)
    \* PostDetail component state (useState)
    post, comments, loading, newComment, replyingTo, replyText, collapsedComments,
    \* PostFeed component state
    feedPosts,
    navigated,       \* onViewChange('home') was called by the post-detail view
    \* handlers in flight: one frame per slot (position, arguments, closure, locals)
    frame,
    pre,             \* per slot: what the handler found when it was invoked
    clicks,          \* SpecVote: vote buttons clicked so far
    streak,          \* same-direction submissions in a row (for the properties only)
    remote           \* SpecClients: another client that has the same post open

treeVars == <<treeInput, treeOut>>
storeVars == <<dbVotes, dbComments, dbPosts, nextVoteId>>
formVars == <<newComment, replyingTo, replyText, collapsedComments>>
detailVars == <<post, comments, loading, newComment, replyingTo, replyText,
                collapsedComments>>
threadVars == <<treeInput, treeOut, dbVotes, dbComments, dbPosts, nextVoteId,
                post, comments, loading, newComment, replyingTo, replyText,
                collapsedComments, feedPosts, navigated, frame, pre, clicks, streak,
                remote>>

VARIABLES
    \* TrendingPage
    allPosts,        \* the posts of the store: [id, hoursOld, upvotes, downvotes]
    timeframe,       \* useState('day')
    trendingPosts,   \* useState([])
    trendingLoading, \* useState(true): `loading` of TrendingPage
    trendingLoad     \* loadTrendingContent in flight: position, closure, locals

VARIABLES
    userVote         \* PostCard: useState(null) of the card of each post

VARIABLES
    \* App: notifications
    dbNotifications, \* notifications collection: id -> isRead
    notifications,   \* useState([]): loaded notifications, id -> isRead
    unreadCount,     \* useState(0)
    marking,         \* id -> markNotificationAsRead calls awaiting their update
    notifLoad,       \* loadNotifications in flight
    markAll          \* NotificationCenter.markAllAsRead in flight

VARIABLES
    \* the store: the community and the memberships of the user in it
    dbMembers,       \* communityMembers records of (user, community): a set of ids
    dbCommunity,     \* the community record: [memberCount]
    nextMemberId,    \* `member_${Date.now()}_${random}` is fresh
    postsCreated,    \* post records created by CreatePost
    \* CommunityView state
    community, cvLoading, isMember,
    cvLoad,          \* loadCommunity in flight
    joinLeave,       \* handleJoinLeave in flight, per slot
    \* CreatePost state
    title, selectedCommunity, postType, imageFile, videoFile, communities,
    cpLoading, uploading,
    submit           \* handleSubmit in flight: position, closure, how it ended

VARIABLES
    \* ModerationDashboard
    modUser,         \* the user prop: [isAdmin, isModerator]
    dbModPosts,      \* posts of the store: id -> [isLocked, isPinned, isHidden]
    modPosts,        \* useState([]): `posts` of the dashboard
    modLoading,      \* useState(true): `loading` of the dashboard
    actionLoading,   \* useState(null): the post an action is running on
    modLoad,         \* the effect and loadModerationData
    postAction,      \* handlePostAction in flight
    modCalled,       \* the dashboard has issued a call to the store
    modNavigated     \* onViewChange('home') was called

modVars == <<modUser, dbModPosts, modPosts, modLoading, actionLoading, modLoad,
             postAction, modCalled, modNavigated>>

memberVars == <<dbMembers, dbCommunity, nextMemberId, postsCreated>>
communityVars == <<community, cvLoading, isMember, cvLoad, joinLeave>>
formFields == <<title, selectedCommunity, postType, imageFile, videoFile>>
createVars == <<title, selectedCommunity, postType, imageFile, videoFile, communities,
                cpLoading, uploading, submit>>
createVarsButSubmit == <<title, selectedCommunity, postType, imageFile, videoFile,
                         communities, cpLoading, uploading>>

trendingVars == <<allPosts, timeframe, trendingPosts, trendingLoading, trendingLoad>>
cardVars == <<userVote>>
notifVars == <<dbNotifications, notifications, unreadCount, marking, notifLoad, markAll>>

\* The views other than the post detail and the home feed.
pageVars == <<trendingVars, notifVars, memberVars, communityVars, createVars, modVars>>
viewVars == <<cardVars, pageVars>>

\* What the actions of one page leave alone.
besidesTrending == <<threadVars, cardVars, notifVars, memberVars, communityVars,
                     createVars, modVars>>
besidesNotif == <<threadVars, cardVars, trendingVars, memberVars, communityVars,
                  createVars, modVars>>
besidesCommunity == <<threadVars, cardVars, trendingVars, notifVars, modVars>>
besidesModeration == <<threadVars, cardVars, trendingVars, notifVars, memberVars,
                       communityVars, createVars>>

vars == <<threadVars, viewVars>>

\* ------------------------------------------------------- buildCommentTree
\* The returned value is an array of node objects that hold their replies by
\* reference; it is modelled as an arena: the root list, each node's replies
\* list (by id) and each node's copied record.

\* The object the map holds for a comment: `fresh` tells a new object from the
\* input object itself, `at` is the input position it was made from.
SameObject(c, i) == [fresh |-> FALSE, at |-> i, rec |-> c]

\* { ...comment, replies: [] }: a new object with the fields of the comment
Spread(c, i) == [fresh |-> TRUE, at |-> i, rec |-> c]

\* First pass: commentMap.set(comment.id, { ...comment, replies: [] })
FirstPass(flat) ==
    [id \in {flat[i].id : i \in 1..Len(flat)} |->
        LET last == CHOOSE i \in 1..Len(flat) :
                        /\ flat[i].id = id
                        /\ \A j \in 1..Len(flat) : flat[j].id = id => j <= i
        IN  Spread(flat[last], last)]

\* One iteration of the second forEach, on comment c.
PlaceFirst(acc, c, ids) ==
    IF c.parentId # NoParent
    THEN IF c.parentId \in ids
         THEN [acc EXCEPT !.replies[c.parentId] = <<c.id>> \o @]
         ELSE acc
    ELSE [acc EXCEPT !.roots = <<c.id>> \o @]

Place(acc, c, ids) ==
    IF c.parentId # NoParent
    THEN IF c.parentId \in ids
         THEN [acc EXCEPT !.replies[c.parentId] = Append(@, c.id)]
         ELSE acc
    ELSE [acc EXCEPT !.roots = Append(@, c.id)]

RECURSIVE SecondPass(_, _, _, _)
SecondPass(flat, i, acc, ids) ==
    IF i > Len(flat) THEN acc
    ELSE SecondPass(flat, i + 1, Place(acc, flat[i], ids), ids)

buildCommentTree(flat) ==
    LET commentMap == FirstPass(flat)
        ids == DOMAIN commentMap
        acc0 == [roots |-> <<>>, replies |-> [id \in ids |-> <<>>]]
        acc == SecondPass(flat, 1, acc0, ids)
    IN  [roots |-> acc.roots, replies |-> acc.replies,
         node |-> [id \in ids |-> commentMap[id].rec],
         \* input objects that carry a replies list after the call: those the
         \* map holds themselves (`replies` is set and pushed on map objects only)
         written |-> {commentMap[id].at : id \in {k \in ids : ~commentMap[k].fresh}},
         built |-> TRUE]

\* Ids of the nodes of a returned tree, in rendering (pre-order) order, each
\* as often as it occurs.
RECURSIVE Flatten(_, _)
Flatten(tree, list) ==
    IF list = <<>> THEN <<>>
    ELSE <<Head(list)>> \o Flatten(tree, tree.replies[Head(list)])
                        \o Flatten(tree, Tail(list))

TreeNodes(tree) == Flatten(tree, tree.roots)

Occurrences(s, x) == Cardinality({i \in 1..Len(s) : s[i] = x})

\* ------------------------------------------------------------ the session
TheUser == 1         \* user.id of the signed-in user
postId == 1          \* PostDetail's postId prop
PostIds == {postId}
Slots == {1, 2}
VoteTypes == {"upvote", "downvote"}
Texts == {"", " hi "}            \* what a textarea may hold

\* String.prototype.trim on the texts above
Trim(t) == IF t = " hi " THEN "hi" ELSE ""

NoPost == [id |-> 0, commentCount |-> 0, upvotes |-> 0, downvotes |-> 0]
NoVote == [id |-> 0, userId |-> 0, targetId |-> 0, targetType |-> "none",
           voteType |-> "none"]
EmptyTree == buildCommentTree(<<>>)

\* The other client: where its handleSubmitComment stands, and the `post` state
\* of its own post-detail view.
NoRemote == [pc |-> "away", post |-> NoPost]

IdleFrame ==
    [pc |-> "idle", kind |-> "none",
     targetId |-> 0, targetType |-> "none", voteType |-> "none",
     parentId |-> NoParent, depth |-> 0, text |-> "",
     post |-> NoPost, posts |-> <<>>,
     existing |-> NoVote, postData |-> NoPost, commentsData |-> <<>>,
     inLoadPost |-> FALSE,
     result |-> "none", at |-> "idle", toast |-> "none"]

Running(h) == frame[h].pc # "idle"

\* Records made in the run so far, with those the handlers in flight may make.
InFlightVotes == {h \in Slots : Running(h) /\ frame[h].kind \in {"vote", "feedVote"}}
InFlightComments == {h \in Slots : Running(h) /\ frame[h].pc = "cCreate"}
Created == (nextVoteId - 1) + Len(dbComments)
              + Cardinality(InFlightVotes) + Cardinality(InFlightComments)

\* --------------------------------------------------------- the record store
\* blink.db.votes.list({ where: { AND: [userId, targetId, targetType] }, limit: 1 })
VotesOf(userId, targetId, targetType) ==
    {v \in dbVotes : /\ v.userId = userId
                     /\ v.targetId = targetId
                     /\ v.targetType = targetType}

\* blink.db.votes.delete(id)
VotesDelete(id) == {v \in dbVotes : v.id # id}

\* blink.db.votes.update(id, { voteType })
VotesUpdate(id, voteType) ==
    {IF v.id = id THEN [v EXCEPT !.voteType = voteType] ELSE v : v \in dbVotes}

\* blink.db.votes.create({ id, userId, targetId, targetType, voteType })
VotesCreate(id, userId, targetId, targetType, voteType) ==
    dbVotes \cup {[id |-> id, userId |-> userId, targetId |-> targetId,
                   targetType |-> targetType, voteType |-> voteType]}

\* The new id collides with the id of the newest comment, whose record the
\* create then replaces.
CommentsCreateOverwriting(c) ==
    IF dbComments = <<>> THEN <<c>>
    ELSE [dbComments EXCEPT ![Len(dbComments)] = [c EXCEPT !.id = Len(dbComments)]]

\* blink.db.comments.create({ id: `comment_${Date.now()}_${random}`, ... })
CommentsCreate(c) == Append(dbComments, c)

\* The three-way branch both vote handlers share: retract, change, create.
ToggleKeepsOldDirection(existing, targetId, targetType, voteType) ==
    IF existing # NoVote
    THEN IF existing.voteType = voteType
         THEN VotesDelete(existing.id)
         ELSE dbVotes
    ELSE VotesCreate(nextVoteId, TheUser, targetId, targetType, voteType)

ToggleCreatesAgain(existing, targetId, targetType, voteType) ==
    IF existing # NoVote /\ existing.voteType # voteType
    THEN VotesUpdate(existing.id, voteType)
    ELSE VotesCreate(nextVoteId, TheUser, targetId, targetType, voteType)

Toggle(existing, targetId, targetType, voteType) ==
    IF existing # NoVote
    THEN IF existing.voteType = voteType
         THEN VotesDelete(existing.id)
         ELSE VotesUpdate(existing.id, voteType)
    ELSE VotesCreate(nextVoteId, TheUser, targetId, targetType, voteType)

\* ------------------------------------------------- rendering of the tree
\* renderComment(comment, depth): the depth argument is the nesting position.
RECURSIVE RenderDepthIn(_, _, _, _)
RenderDepthIn(tree, list, id, depth) ==
    IF list = <<>> THEN -1
    ELSE IF Head(list) = id THEN depth
    ELSE LET below == RenderDepthIn(tree, tree.replies[Head(list)], id, depth + 1)
         IN  IF below >= 0 THEN below
             ELSE RenderDepthIn(tree, Tail(list), id, depth)

RenderDepth(id) == RenderDepthIn(comments, comments.roots, id, 0)

\* Ids rendered: replies of a collapsed comment are not rendered.
RECURSIVE RenderedInAll(_, _, _)
RenderedInAll(tree, list, collapsed) ==
    IF list = <<>> THEN {}
    ELSE {Head(list)}
         \cup RenderedInAll(tree, tree.replies[Head(list)], collapsed)
         \cup RenderedInAll(tree, Tail(list), collapsed)

RECURSIVE RenderedIn(_, _, _)
RenderedIn(tree, list, collapsed) ==
    IF list = <<>> THEN {}
    ELSE {Head(list)}
         \cup (IF Head(list) \in collapsed THEN {}
               ELSE RenderedIn(tree, tree.replies[Head(list)], collapsed))
         \cup RenderedIn(tree, Tail(list), collapsed)

Rendered == RenderedIn(comments, comments.roots, collapsedComments)

\* const maxDepth = 8: the display depth from which no margin is applied.
maxDepth == 8

shouldIndent(depth) == depth < maxDepth

\* The margin is capped at 32 units whatever the depth.
MarginLeftCapped(depth) == Min(depth * 4, 32)

\* The left margin of the comment's div, in units of the spacing scale:
\* `ml-${Math.min(depth * 4, 32)}` when shouldIndent, no margin class otherwise.
MarginLeft(depth) == IF shouldIndent(depth) THEN Min(depth * 4, 32) ELSE 0

\* 'border-l-2 ... pl-4' for every nested comment.
PaddingLeft(depth) == IF depth > 0 THEN 4 ELSE 0

\* Each reply is rendered inside the div of its parent, so the margins and
\* paddings of the ancestors add up to the position of the comment.
RECURSIVE Offset(_)
Offset(depth) ==
    IF depth = 0 THEN MarginLeft(0) + PaddingLeft(0)
    ELSE Offset(depth - 1) + MarginLeft(depth) + PaddingLeft(depth)

\* The post page (not the skeleton, not "Post not found") is on screen.
PageShown == ~loading /\ post # NoPost

\* `{!isCollapsed && (...)}` around the action row (Reply, Save, menu)
ActionRowShown(id) == id \in Rendered /\ id \notin collapsedComments

\* The comment text (or the deleted placeholder) is rendered unconditionally.
TextShown(id) == id \in Rendered

\* ------------------------------------------------------- handler frames
Display == [post |-> post, comments |-> comments,
            collapsedComments |-> collapsedComments,
            replyingTo |-> replyingTo, replyText |-> replyText,
            newComment |-> newComment]

\* What a handler found when it was invoked (kept for the properties only).
Snapshot == [display |-> Display, votes |-> dbVotes, posts |-> dbPosts,
             comments |-> dbComments]
NoSnapshot == [display |-> <<>>, votes |-> {}, posts |-> <<>>, comments |-> <<>>]

Invoke(h, f) ==
    /\ frame' = [frame EXCEPT ![h] = [f EXCEPT !.result = "running"]]
    /\ pre' = [pre EXCEPT ![h] = Snapshot]

Goto(h, pc) == frame' = [frame EXCEPT ![h].pc = pc]

\* The handler returns.  What it was, how it ended, where, and the toast it
\* showed stay readable until the slot is used again or the user acts.
Return(h, result, toast) ==
    /\ frame' = [frame EXCEPT ![h] = [IdleFrame EXCEPT !.kind = frame[h].kind,
                                                      !.result = result,
                                                      !.at = frame[h].pc,
                                                      !.toast = toast]]
    /\ pre' = [pre EXCEPT ![h] = NoSnapshot]

\* loadPostAndComments without its finally block.
FinallySkipped(h) == UNCHANGED loading

\* `finally { setLoading(false) }` of loadPostAndComments, when the reload
\* runs inside it.
Finally(h) == loading' = IF frame[h].inLoadPost THEN FALSE ELSE loading

\* The toast the caller of loadComments shows once loadComments has returned
\* (loadComments never throws: it catches and logs).
AfterReloadToast(h) ==
    CASE frame[h].kind = "comment" -> "Comment posted!"
      [] frame[h].kind = "reply" -> "Reply posted!"
      [] OTHER -> "none"

\* ------------------------------------------- PostDetail: loadPostAndComments
\* posts.list({ where: { id: postId }, limit: 1 }) answered
LoadPost(h) ==
    /\ frame[h].pc = "rPost"
    /\ IF postId \in DOMAIN dbPosts
       THEN /\ frame' = [frame EXCEPT ![h].pc = "rPostSet",
                                      ![h].postData = dbPosts[postId]]
            /\ UNCHANGED <<loading, navigated, pre>>
       ELSE /\ Return(h, "ok", "Post not found")
            /\ navigated' = TRUE
            /\ loading' = FALSE
    /\ UNCHANGED <<treeVars, storeVars, post, comments, formVars, feedPosts, clicks,
                   streak, remote, viewVars>>

\* author and community lists answered; setPost(enrichedPost)
LoadPostSet(h) ==
    /\ frame[h].pc = "rPostSet"
    /\ post' = frame[h].postData
    /\ Goto(h, "rComments")
    /\ UNCHANGED <<treeVars, storeVars, comments, loading, formVars, feedPosts,
                   navigated, pre, clicks, streak, remote, viewVars>>

\* ---------------------------------------------------- PostDetail: loadComments
\* comments.list({ where: { postId }, orderBy: { createdAt: 'asc' } }) answered
LoadComments(h) ==
    /\ frame[h].pc = "rComments"
    /\ frame' = [frame EXCEPT ![h].pc = "rCommentsSet",
                              ![h].commentsData = dbComments]
    /\ UNCHANGED <<treeVars, storeVars, detailVars, feedPosts, navigated, pre, clicks,
                   streak, remote, viewVars>>

KeptTree(h) == comments

\* const commentTree = buildCommentTree(enrichedComments)
ReloadedTree(h) == buildCommentTree(frame[h].commentsData)

\* author lists answered; setComments(commentTree)
LoadCommentsSet(h) ==
    /\ frame[h].pc = "rCommentsSet"
    /\ comments' = ReloadedTree(h)
    /\ Finally(h)
    /\ Return(h, "ok", AfterReloadToast(h))
    /\ UNCHANGED <<treeVars, storeVars, post, formVars, feedPosts, navigated, clicks,
                   streak, remote, viewVars>>

\* ------------------------------------------------------ PostDetail.handleVote
\* A vote button of the page is clicked: handleVote(targetId, targetType, voteType)
InvokeVote(h, targetId, targetType, voteType, cap) ==
    /\ ~Running(h)
    /\ PageShown /\ ~navigated
    /\ \/ targetType = "post" /\ targetId = post.id
       \/ targetType = "comment" /\ targetId \in Rendered
    /\ VotesOf(TheUser, targetId, targetType) = {} => Created < cap
    /\ Invoke(h, [IdleFrame EXCEPT !.pc = "vList", !.kind = "vote",
                                   !.targetId = targetId,
                                   !.targetType = targetType,
                                   !.voteType = voteType])
    /\ UNCHANGED <<treeVars, storeVars, detailVars, feedPosts, navigated, streak, remote,
                   viewVars>>

StartVote(h, targetId, targetType, voteType, cap) ==
    InvokeVote(h, targetId, targetType, voteType, cap) /\ UNCHANGED clicks

\* votes.list({ where: { AND: [...] }, limit: 1 }) answered: one of the
\* matching records, or none
ListExisting(h, next) ==
    LET found == VotesOf(TheUser, frame[h].targetId, frame[h].targetType)
    IN  \E e \in (IF found = {} THEN {NoVote} ELSE found) :
            frame' = [frame EXCEPT ![h].pc = next, ![h].existing = e]

VoteList(h) ==
    /\ frame[h].pc = "vList"
    /\ ListExisting(h, "vMutate")
    /\ UNCHANGED <<treeVars, storeVars, detailVars, feedPosts, navigated, pre, clicks,
                   streak, remote, viewVars>>

\* The run of same-direction submissions on one target that started from no
\* record, after the submission of frame h (kept for the properties only).
NoStreak == [targetId |-> 0, targetType |-> "none", voteType |-> "none", n |-> 0]

StreakAfter(h) ==
    LET f == frame[h]
        same == /\ streak.targetId = f.targetId
                /\ streak.targetType = f.targetType
                /\ streak.voteType = f.voteType
    IN  IF VotesOf(TheUser, f.targetId, f.targetType) = {}
        THEN [targetId |-> f.targetId, targetType |-> f.targetType,
              voteType |-> f.voteType, n |-> 1]
        ELSE IF same /\ streak.n = 1 THEN [streak EXCEPT !.n = 2]
        ELSE NoStreak

\* votes.delete / votes.update / votes.create answered
MutateVotes(h) ==
    /\ dbVotes' = Toggle(frame[h].existing, frame[h].targetId,
                         frame[h].targetType, frame[h].voteType)
    /\ nextVoteId' = IF frame[h].existing = NoVote THEN nextVoteId + 1
                     ELSE nextVoteId
    /\ streak' = StreakAfter(h)

\* ... then the reload starts: loadPostAndComments() (setLoading(true)) for a
\* post, loadComments() for a comment
VoteMutate(h) ==
    /\ frame[h].pc = "vMutate"
    /\ MutateVotes(h)
    /\ IF frame[h].targetType = "post"
       THEN /\ loading' = TRUE
            /\ frame' = [frame EXCEPT ![h].pc = "rPost", ![h].inLoadPost = TRUE]
       ELSE /\ Goto(h, "rComments")
            /\ UNCHANGED loading
    /\ UNCHANGED <<treeVars, dbComments, dbPosts, post, comments, formVars,
                   feedPosts, navigated, pre, clicks, remote, viewVars>>

\* ------------------------------- PostDetail: handleSubmitComment / Reply
MaxDepth == 10       \* Math.min(depth + 1, 10)

ReplyDepthUncapped(depth) == depth + 1

\* depth: Math.min(depth + 1, 10), depth being renderComment's argument
ReplyDepth(depth) == Min(depth + 1, MaxDepth)

NewComment(id, content, parentId, depth) ==
    [id |-> id, content |-> content, authorId |-> TheUser, parentId |-> parentId,
     upvotes |-> 0, downvotes |-> 0, depth |-> depth]


\* The Post Comment button: handleSubmitComment()
StartComment(h, cap) ==
    /\ ~Running(h)
    /\ PageShown /\ ~navigated
    /\ Trim(newComment) # ""
    /\ Created < cap
    /\ Invoke(h, [IdleFrame EXCEPT !.pc = "cCreate", !.kind = "comment",
                                   !.text = Trim(newComment), !.post = post])
    /\ UNCHANGED <<treeVars, storeVars, detailVars, feedPosts, navigated, clicks,
                   streak, remote, viewVars>>

\* The Reply button of the form rendered under comment `id`:
\* handleSubmitReply(comment.id, depth)
StartReply(h, id, cap) ==
    /\ ~Running(h)
    /\ PageShown /\ ~navigated
    /\ id \in Rendered /\ replyingTo = id
    /\ Trim(replyText) # ""
    /\ Created < cap
    /\ Invoke(h, [IdleFrame EXCEPT !.pc = "cCreate", !.kind = "reply",
                                   !.parentId = id, !.depth = RenderDepth(id),
                                   !.text = Trim(replyText), !.post = post])
    /\ UNCHANGED <<treeVars, storeVars, detailVars, feedPosts, navigated, clicks,
                   streak, remote, viewVars>>

\* setNewComment('') / setReplyText(''); setReplyingTo(null); loadComments()
ClearForm(h) ==
    /\ IF frame[h].kind = "comment"
       THEN newComment' = "" /\ UNCHANGED <<replyText, replyingTo>>
       ELSE replyText' = "" /\ replyingTo' = NoParent /\ UNCHANGED newComment
    /\ Goto(h, "rComments")

AfterCreateOptimistic(h) ==
    /\ IF frame[h].kind = "comment"
       THEN newComment' = "" /\ UNCHANGED <<replyText, replyingTo>>
       ELSE replyText' = "" /\ replyingTo' = NoParent /\ UNCHANGED newComment
    /\ Goto(h, IF frame[h].post # NoPost THEN "cCount" ELSE "rComments")

\* After `await comments.create(...)`: `if (post) { await posts.update(...) }`,
\* and only then the form is cleared.
AfterCreate(h) ==
    IF frame[h].post # NoPost
    THEN Goto(h, "cCount") /\ UNCHANGED <<newComment, replyText, replyingTo>>
    ELSE ClearForm(h)

\* comments.create answered
CommentCreate(h) ==
    /\ frame[h].pc = "cCreate"
    /\ dbComments' = CommentsCreate(
          NewComment(Len(dbComments) + 1, frame[h].text, frame[h].parentId,
                     IF frame[h].kind = "comment" THEN 0
                     ELSE ReplyDepth(frame[h].depth)))
    /\ AfterCreate(h)
    /\ UNCHANGED <<treeVars, dbVotes, dbPosts, nextVoteId, post, comments, loading,
                   collapsedComments, feedPosts, navigated, pre, clicks, streak, remote,
                   viewVars>>

\* commentCount: post.commentCount + 1, `post` being the component state the
\* handler closed over
IncrementedCount(p) == p.commentCount + 1

\* The count read from the store at the time of the write.
CountFromStore(h) == dbPosts[postId].commentCount + 1

NextCommentCount(h) == IncrementedCount(frame[h].post)

\* posts.update(postId, { commentCount }) answered
CommentCount(h) ==
    /\ frame[h].pc = "cCount"
    /\ dbPosts' = IF postId \in DOMAIN dbPosts
                  THEN [dbPosts EXCEPT ![postId].commentCount = NextCommentCount(h)]
                  ELSE dbPosts
    /\ ClearForm(h)
    /\ UNCHANGED <<treeVars, dbVotes, dbComments, nextVoteId, post, comments, loading,
                   collapsedComments, feedPosts, navigated, pre, clicks, streak, remote,
                   viewVars>>

\* ------------------------------------------------------ PostCard.handleVote
\* setUserVote(userVote === voteType ? null : voteType)
NextUserVote(current, voteType) == IF current = voteType THEN "none" ELSE voteType

\* The cards of the feed as they are mounted: useState(null).
CardsMounted == userVote = [p \in PostIds |-> "none"]

\* -------------------------------------------------------- PostFeed.handleVote
\* A vote button of a post card is clicked: handleVote(postId, voteType); the
\* handler closes over the `posts` of this render.
InvokeFeedVote(h, pid, voteType) ==
    /\ ~Running(h)
    /\ pid \in DOMAIN feedPosts
    /\ Invoke(h, [IdleFrame EXCEPT !.pc = "fList", !.kind = "feedVote",
                                   !.targetId = pid, !.targetType = "post",
                                   !.voteType = voteType, !.posts = feedPosts])
    /\ userVote' = [userVote EXCEPT ![pid] = NextUserVote(@, voteType)]
    /\ UNCHANGED <<treeVars, storeVars, detailVars, feedPosts, navigated, streak, remote,
                   pageVars>>

FeedList(h) ==
    /\ frame[h].pc = "fList"
    /\ ListExisting(h, "fMutate")
    /\ UNCHANGED <<treeVars, storeVars, detailVars, feedPosts, navigated, pre, clicks,
                   streak, remote, viewVars>>

\* votes.delete / votes.update / votes.create answered;
\* const post = posts.find(p => p.id === postId)
FeedMutate(h) ==
    /\ frame[h].pc = "fMutate"
    /\ MutateVotes(h)
    /\ IF frame[h].targetId \in DOMAIN frame[h].posts
       THEN Goto(h, "fCount") /\ UNCHANGED pre
       ELSE Return(h, "ok", "none")
    /\ UNCHANGED <<treeVars, dbComments, dbPosts, detailVars, feedPosts, navigated,
                   clicks, remote, viewVars>>

\* updatedPost of the three branches, from the post of the closed-over list
UpdatedPost(p, existing, voteType) ==
    IF existing # NoVote
    THEN IF existing.voteType = voteType
         THEN IF voteType = "upvote"
              THEN [p EXCEPT !.upvotes = p.upvotes - 1]
              ELSE [p EXCEPT !.downvotes = p.downvotes - 1]
         ELSE [p EXCEPT
                 !.upvotes = IF voteType = "upvote" THEN p.upvotes + 1
                             ELSE p.upvotes - 1,
                 !.downvotes = IF voteType = "downvote" THEN p.downvotes + 1
                               ELSE p.downvotes - 1]
    ELSE IF voteType = "upvote"
         THEN [p EXCEPT !.upvotes = p.upvotes + 1]
         ELSE [p EXCEPT !.downvotes = p.downvotes + 1]

\* posts.update(postId, {...}) answered (the fields the branch sends);
\* setPosts(posts.map(p => p.id === postId ? updatedPost : p))
FeedCount(h) ==
    /\ frame[h].pc = "fCount"
    /\ LET pid == frame[h].targetId
           e == frame[h].existing
           vt == frame[h].voteType
           up == UpdatedPost(frame[h].posts[pid], e, vt)
           both == e # NoVote /\ e.voteType # vt
       IN  /\ dbPosts' =
                IF pid \notin DOMAIN dbPosts THEN dbPosts
                ELSE [dbPosts EXCEPT
                        ![pid].upvotes = IF both \/ vt = "upvote"
                                         THEN up.upvotes ELSE @,
                        ![pid].downvotes = IF both \/ vt = "downvote"
                                           THEN up.downvotes ELSE @]
           /\ feedPosts' = [frame[h].posts EXCEPT ![pid] = up]
    /\ Return(h, "ok", "none")
    /\ UNCHANGED <<treeVars, dbVotes, dbComments, nextVoteId, detailVars, navigated,
                   clicks, streak, remote, viewVars>>

\* ----------------------------------------------------- a backend call fails
\* The awaited call of the handler's current position rejects: the store is
\* left as it was and the enclosing catch block runs.  (Promise.all over no
\* comments makes no call.)
CanFail(h) ==
    /\ Running(h)
    /\ frame[h].pc = "rCommentsSet" => frame[h].commentsData # <<>>

ReloadPcs == {"rPost", "rPostSet", "rComments", "rCommentsSet"}

\* catch of handleVote / loadPostAndComments / handleSubmitComment /
\* handleSubmitReply: a toast; catch of loadComments and of PostFeed.handleVote:
\* console.error only.
CatchToast(h) ==
    LET pc == frame[h].pc IN
    CASE pc \in {"vList", "vMutate"} -> "Error voting"
      [] pc \in {"rPost", "rPostSet"} -> "Error loading post"
      [] pc \in {"rComments", "rCommentsSet"} -> AfterReloadToast(h)
      [] pc \in {"cCreate", "cCount"} ->
            (IF frame[h].kind = "comment" THEN "Error posting comment"
             ELSE "Error posting reply")
      [] OTHER -> "none"

Fail(h) ==
    /\ CanFail(h)
    /\ Return(h, "failed", CatchToast(h))
    /\ loading' = IF frame[h].pc \in ReloadPcs /\ frame[h].inLoadPost
                  THEN FALSE ELSE loading
    /\ UNCHANGED <<treeVars, storeVars, post, comments, formVars, feedPosts,
                   navigated, clicks, streak, remote, viewVars>>

\* ------------------------------------------------ PostDetail: form and toggles
\* The record of the handler that last returned is dropped at the next input.
Forget == frame' = [h \in Slots |-> IdleFrame] /\ UNCHANGED pre

Quiet == \A h \in Slots : ~Running(h)

\* onChange of the comment textarea
TypeComment(t) ==
    /\ Quiet /\ PageShown /\ ~navigated
    /\ t # newComment
    /\ newComment' = t
    /\ Forget
    /\ UNCHANGED <<treeVars, storeVars, post, comments, loading, replyingTo,
                   replyText, collapsedComments, feedPosts, navigated, clicks, streak, remote,
                   viewVars>>

\* `{replyingTo === comment.id && (reply form)}`
ReplyFormOpen(id) == replyingTo = id

OpenReplyForm(id) == id

\* setReplyingTo(replyingTo === comment.id ? null : comment.id)
ToggleReplyForm(id) == IF replyingTo = id THEN NoParent ELSE id

\* the Reply button of the action row (hidden while the comment is collapsed)
ClickReply(id) ==
    /\ Quiet /\ PageShown /\ ~navigated
    /\ id \in Rendered /\ id \notin collapsedComments
    /\ replyingTo' = ToggleReplyForm(id)
    /\ Forget
    /\ UNCHANGED <<treeVars, storeVars, post, comments, loading, newComment,
                   replyText, collapsedComments, feedPosts, navigated, clicks, streak, remote,
                   viewVars>>

\* onChange of the reply textarea
TypeReply(t) ==
    /\ Quiet /\ PageShown /\ ~navigated
    /\ replyingTo \in Rendered
    /\ t # replyText
    /\ replyText' = t
    /\ Forget
    /\ UNCHANGED <<treeVars, storeVars, post, comments, loading, newComment,
                   replyingTo, collapsedComments, feedPosts, navigated, clicks, streak, remote,
                   viewVars>>

\* the Cancel button of the reply form
CancelReply ==
    /\ Quiet /\ PageShown /\ ~navigated
    /\ replyingTo \in Rendered
    /\ replyingTo' = NoParent
    /\ replyText' = ""
    /\ Forget
    /\ UNCHANGED <<treeVars, storeVars, post, comments, loading, newComment,
                   collapsedComments, feedPosts, navigated, clicks, streak, remote,
                   viewVars>>

CollapseOnly(commentId) == collapsedComments \cup {commentId}

toggleCommentCollapse(commentId) ==
    IF commentId \in collapsedComments
    THEN collapsedComments \ {commentId}
    ELSE collapsedComments \cup {commentId}

\* the [+]/[-] button, shown on comments that have replies
ToggleCollapse(id) ==
    /\ Quiet /\ PageShown /\ ~navigated
    /\ id \in Rendered /\ comments.replies[id] # <<>>
    /\ collapsedComments' = toggleCommentCollapse(id)
    /\ Forget
    /\ UNCHANGED <<treeVars, storeVars, post, comments, loading, newComment,
                   replyingTo, replyText, feedPosts, navigated, clicks, streak, remote,
                   viewVars>>

\* The post-detail view and the home feed are not shown and the store holds
\* no post.
ThreadsNotMounted ==
    /\ treeInput = <<>> /\ treeOut = NotBuilt
    /\ dbVotes = {} /\ dbComments = <<>> /\ dbPosts = <<>> /\ nextVoteId = 1
    /\ post = NoPost /\ comments = EmptyTree /\ loading = FALSE
    /\ newComment = "" /\ replyingTo = NoParent /\ replyText = ""
    /\ collapsedComments = {} /\ feedPosts = <<>> /\ navigated = FALSE
    /\ frame = [h \in Slots |-> IdleFrame]
    /\ pre = [h \in Slots |-> NoSnapshot]
    /\ clicks = 0
    /\ streak = NoStreak
    /\ remote = NoRemote

\* ------------------------------------------------------------ TrendingPage
\* Time is counted in whole hours: hoursOld of a post is Date.now() minus its
\* createdAt, which the store sets, so it is never negative.
Timeframes == {"hour", "day", "week", "month"}

\* setMonth(getMonth() - 1) goes back by the length of a month: 28 to 31 days.
MonthHours == {672, 696, 720, 744}

\* timeframeCutoff, as the age in hours of a post created at the cutoff.
CutoffHours(tf, month) ==
    CASE tf = "hour" -> 1
      [] tf = "day" -> 24
      [] tf = "week" -> 168
      [] tf = "month" -> month

\* .filter(post => new Date(post.createdAt) >= timeframeCutoff)
InTimeframe(p, cutoff) == p.hoursOld <= cutoff

Sgn(x) == IF x > 0 THEN 1 ELSE IF x < 0 THEN -1 ELSE 0

\* score = post.upvotes - post.downvotes
Score(p) == p.upvotes - p.downvotes

\* trendingScore = score / Math.pow(hoursOld + 2, 1.5).  Two trending scores
\* are compared exactly: s / h^1.5 < t / g^1.5 iff sgn(s) s^2 g^3 < sgn(t) t^2 h^3.
TrendingLess(a, b) ==
    LET h == a.hoursOld + 2
        g == b.hoursOld + 2
    IN  Sgn(Score(a)) * Score(a) * Score(a) * g * g * g
          < Sgn(Score(b)) * Score(b) * Score(b) * h * h * h

\* The comparator looks at the raw score and not at the decayed one.
ByRawScore(a, b) == Score(b) < Score(a)

\* (a, b) => b.trendingScore - a.trendingScore is negative: a goes before b
ByTrendingScore(a, b) == TrendingLess(b, a)

\* Array.prototype.sort is stable: x goes behind every element that does not
\* have to follow it.
RECURSIVE InsertSorted(_, _)
InsertSorted(sorted, x) ==
    IF sorted = <<>> THEN <<x>>
    ELSE IF ByTrendingScore(x, Head(sorted)) THEN <<x>> \o sorted
    ELSE <<Head(sorted)>> \o InsertSorted(Tail(sorted), x)

RECURSIVE SortByTrending(_)
SortByTrending(list) ==
    IF list = <<>> THEN <<>>
    ELSE InsertSorted(SortByTrending(SubSeq(list, 1, Len(list) - 1)), list[Len(list)])

\* .slice(0, 20)
SliceLimit == 20

RECURSIVE Filter(_, _)
Filter(list, cutoff) ==
    IF list = <<>> THEN <<>>
    ELSE (IF InTimeframe(Head(list), cutoff) THEN <<Head(list)>> ELSE <<>>)
         \o Filter(Tail(list), cutoff)

filteredPosts(enrichedPosts, cutoff) ==
    LET sorted == SortByTrending(Filter(enrichedPosts, cutoff))
    IN  SubSeq(sorted, 1, Min(Len(sorted), SliceLimit))

NoLoad == [pc |-> "idle", timeframe |-> "day", postsData |-> <<>>, cutoff |-> 0]

TrendingNotMounted ==
    /\ allPosts = <<>>
    /\ timeframe = "day"
    /\ trendingPosts = <<>>
    /\ trendingLoading = FALSE
    /\ trendingLoad = NoLoad

\* useEffect(..., [timeframe]): the effect runs loadTrendingContent with the
\* timeframe of this render; setLoading(true).
StartTrendingLoad(tf) ==
    /\ trendingLoading' = TRUE
    /\ trendingLoad' = [NoLoad EXCEPT !.pc = "posts", !.timeframe = tf]

\* The timeframe tabs are rendered only when the page is not loading.
SelectTimeframe(tf) ==
    /\ ~trendingLoading
    /\ trendingLoad.pc = "idle"
    /\ tf # timeframe
    /\ timeframe' = tf
    /\ StartTrendingLoad(tf)
    /\ UNCHANGED <<besidesTrending, allPosts, trendingPosts>>

\* await blink.db.posts.list({ orderBy: { createdAt: 'desc' }, limit: 50 })
TrendingListPosts ==
    /\ trendingLoad.pc = "posts"
    /\ trendingLoad' = [trendingLoad EXCEPT !.pc = "enrich", !.postsData = allPosts]
    /\ UNCHANGED <<besidesTrending, allPosts, timeframe, trendingPosts, trendingLoading>>

\* await Promise.all(authors and communities); the cutoff is computed from
\* the clock and setTrendingPosts(filteredPosts).
TrendingSetPosts ==
    /\ trendingLoad.pc = "enrich"
    /\ \E month \in MonthHours :
          LET cutoff == CutoffHours(trendingLoad.timeframe, month)
          IN  /\ trendingPosts' = filteredPosts(trendingLoad.postsData, cutoff)
              /\ trendingLoad' = [trendingLoad EXCEPT !.pc = "communities",
                                                     !.cutoff = cutoff]
    /\ UNCHANGED <<besidesTrending, allPosts, timeframe, trendingLoading>>

\* await blink.db.communities.list(...), the hot topics, and finally
\* setLoading(false).
TrendingFinish ==
    /\ trendingLoad.pc = "communities"
    /\ trendingLoading' = FALSE
    /\ trendingLoad' = [trendingLoad EXCEPT !.pc = "idle"]
    /\ UNCHANGED <<besidesTrending, allPosts, timeframe, trendingPosts>>

\* An awaited call rejects: catch logs, finally setLoading(false).
TrendingFail ==
    /\ trendingLoad.pc \in {"posts", "enrich", "communities"}
    /\ trendingLoading' = FALSE
    /\ trendingLoad' = [trendingLoad EXCEPT !.pc = "idle"]
    /\ UNCHANGED <<besidesTrending, allPosts, timeframe, trendingPosts>>

\* ---------------------------------------------------- App: notifications
NotificationIds == 1..MaxNotifications

\* notifications.filter(n => !n.isRead)
Unread(loaded) == {n \in DOMAIN loaded : ~loaded[n]}

RECURSIVE SumMarks(_, _)
SumMarks(m, ids) ==
    IF ids = {} THEN 0
    ELSE LET n == CHOOSE x \in ids : TRUE IN m[n] + SumMarks(m, ids \ {n})

NotifIdle == [pc |-> "idle", data |-> <<>>, unread |-> {}]

NotificationsNotLoaded ==
    /\ dbNotifications = <<>>
    /\ notifications = <<>>
    /\ unreadCount = 0
    /\ marking = [n \in NotificationIds |-> 0]
    /\ notifLoad = NotifIdle
    /\ markAll = NotifIdle

\* loadNotifications(userId) is called
LoadNotifications ==
    /\ notifLoad.pc = "idle"
    /\ notifLoad' = [notifLoad EXCEPT !.pc = "list"]
    /\ UNCHANGED <<besidesNotif, dbNotifications, notifications, unreadCount, marking,
                   markAll>>

\* await blink.db.notifications.list(...) answered
LoadNotificationsList ==
    /\ notifLoad.pc = "list"
    /\ notifLoad' = [notifLoad EXCEPT !.pc = "set", !.data = dbNotifications]
    /\ UNCHANGED <<besidesNotif, dbNotifications, notifications, unreadCount, marking,
                   markAll>>

\* notificationsData.filter(n => !n.isRead).length
CountUnread(data) == Cardinality(Unread(data))

\* setNotifications(notificationsData); setUnreadCount(...)
LoadNotificationsSet ==
    /\ notifLoad.pc = "set"
    /\ notifications' = notifLoad.data
    /\ unreadCount' = CountUnread(notifLoad.data)
    /\ notifLoad' = NotifIdle
    /\ UNCHANGED <<besidesNotif, dbNotifications, marking, markAll>>

\* notifications.list rejects: the catch block logs.
LoadNotificationsFail ==
    /\ notifLoad.pc = "list"
    /\ notifLoad' = NotifIdle
    /\ UNCHANGED <<besidesNotif, dbNotifications, notifications, unreadCount, marking,
                   markAll>>

\* handleNotificationClick: `if (!notification.isRead) onMarkAsRead(id)`, on
\* the notifications of the current render.
ClickNotification(n) ==
    /\ n \in Unread(notifications)
    /\ SumMarks(marking, NotificationIds) < MaxMarks
    /\ marking' = [marking EXCEPT ![n] = @ + 1]
    /\ UNCHANGED <<besidesNotif, dbNotifications, notifications, unreadCount, notifLoad,
                   markAll>>

\* setUnreadCount(prev => Math.max(0, prev - 1))
DecrementUnread(prev) == IF prev - 1 > 0 THEN prev - 1 ELSE 0

\* markNotificationAsRead: the update is answered; then
\* setNotifications(prev => prev.map(...)) and the decrement.
MarkAnswered(n) ==
    /\ marking[n] > 0
    /\ marking' = [marking EXCEPT ![n] = @ - 1]
    /\ dbNotifications' = [dbNotifications EXCEPT ![n] = TRUE]
    /\ notifications' = [k \in DOMAIN notifications |->
                            IF k = n THEN TRUE ELSE notifications[k]]
    /\ unreadCount' = DecrementUnread(unreadCount)
    /\ UNCHANGED <<besidesNotif, notifLoad, markAll>>

\* notifications.update rejects: the catch block logs.
MarkFails(n) ==
    /\ marking[n] > 0
    /\ marking' = [marking EXCEPT ![n] = @ - 1]
    /\ UNCHANGED <<besidesNotif, dbNotifications, notifications, unreadCount, notifLoad,
                   markAll>>

\* markAllAsRead is clicked (the button is rendered when the centre counts an
\* unread notification): unreadNotifications of this render.
MarkAllAsRead ==
    /\ markAll.pc = "idle"
    /\ Unread(notifications) # {}
    /\ SumMarks(marking, NotificationIds) + Cardinality(Unread(notifications)) <= MaxMarks
    /\ markAll' = [markAll EXCEPT !.pc = "update", !.unread = Unread(notifications)]
    /\ UNCHANGED <<besidesNotif, dbNotifications, notifications, unreadCount, marking,
                   notifLoad>>

\* await Promise.all(updates) answered; then onMarkAsRead(id) for each.
MarkAllUpdated ==
    /\ markAll.pc = "update"
    /\ dbNotifications' = [k \in DOMAIN dbNotifications |->
                              IF k \in markAll.unread THEN TRUE ELSE dbNotifications[k]]
    /\ marking' = [k \in NotificationIds |->
                      IF k \in markAll.unread THEN marking[k] + 1 ELSE marking[k]]
    /\ markAll' = NotifIdle
    /\ UNCHANGED <<besidesNotif, notifications, unreadCount, notifLoad>>

\* One of the updates rejects (those in `done` were applied): the catch logs.
MarkAllFails ==
    /\ markAll.pc = "update"
    /\ \E done \in SUBSET markAll.unread :
          /\ done # markAll.unread
          /\ dbNotifications' = [k \in DOMAIN dbNotifications |->
                                    IF k \in done THEN TRUE ELSE dbNotifications[k]]
    /\ markAll' = NotifIdle
    /\ UNCHANGED <<besidesNotif, notifications, unreadCount, marking, notifLoad>>

\* ------------------------------------------------------------ CommunityView
NoCommunity == [memberCount |-> -1]     \* community: null; communities.find: undefined
TheCommunity == 1                       \* communityId; '' (0) is no selection
NoSelection == 0

JoinIdle == [pc |-> "idle", community |-> NoCommunity, membership |-> 0]
LoadIdle == [pc |-> "idle"]

\* Membership records a handler in flight may still create.
MayCreateMember ==
    Cardinality({h \in Slots : joinLeave[h].pc = "jCreate"})
      + (IF submit.pc \in {"image", "video", "create", "members", "mCreate"} THEN 1 ELSE 0)

MembersBudget == (nextMemberId - 1) + MayCreateMember

\* The view is opened: useEffect calls loadCommunity.
OpenCommunity ==
    /\ cvLoad.pc = "idle"
    /\ \A h \in Slots : joinLeave[h].pc = "idle"
    /\ community' = NoCommunity /\ cvLoading' = TRUE /\ isMember' = FALSE
    /\ cvLoad' = [pc |-> "community"]
    /\ UNCHANGED <<besidesCommunity, memberVars, joinLeave, createVars>>

\* communities.list answered: setCommunity(communityData[0])
CommunityListed ==
    /\ cvLoad.pc = "community"
    /\ community' = dbCommunity
    /\ cvLoad' = [pc |-> "membership"]
    /\ UNCHANGED <<besidesCommunity, memberVars, cvLoading, isMember, joinLeave,
                   createVars>>

\* communityMembers.list answered: setIsMember(membership.length > 0); finally
MembershipListed ==
    /\ cvLoad.pc = "membership"
    /\ isMember' = (dbMembers # {})
    /\ cvLoading' = FALSE
    /\ cvLoad' = LoadIdle
    /\ UNCHANGED <<besidesCommunity, memberVars, community, joinLeave, createVars>>

\* One of the two lists rejects: catch logs, finally setLoading(false).
LoadCommunityFails ==
    /\ cvLoad.pc # "idle"
    /\ cvLoading' = FALSE
    /\ cvLoad' = LoadIdle
    /\ UNCHANGED <<besidesCommunity, memberVars, community, isMember, joinLeave,
                   createVars>>

\* The Join / Joined button is clicked: handleJoinLeave of this render.
ClickJoinLeave(h) ==
    /\ joinLeave[h].pc = "idle"
    /\ ~cvLoading /\ community # NoCommunity
    /\ ~isMember => MembersBudget < MaxMembers
    /\ joinLeave' = [joinLeave EXCEPT ![h] =
                        [pc |-> IF isMember THEN "lList" ELSE "jCreate",
                         community |-> community, membership |-> 0]]
    /\ UNCHANGED <<besidesCommunity, memberVars, community, cvLoading, isMember, cvLoad,
                   createVars>>

\* Leave: communityMembers.list answered; nothing is done when none is found.
LeaveListed(h) ==
    /\ joinLeave[h].pc = "lList"
    /\ IF dbMembers = {}
       THEN joinLeave' = [joinLeave EXCEPT ![h] = JoinIdle]
       ELSE \E m \in dbMembers :
               joinLeave' = [joinLeave EXCEPT ![h].pc = "lDelete", ![h].membership = m]
    /\ UNCHANGED <<besidesCommunity, memberVars, community, cvLoading, isMember, cvLoad,
                   createVars>>

\* communityMembers.delete(membership[0].id) answered
LeaveDeleted(h) ==
    /\ joinLeave[h].pc = "lDelete"
    /\ dbMembers' = dbMembers \ {joinLeave[h].membership}
    /\ joinLeave' = [joinLeave EXCEPT ![h].pc = "lCount"]
    /\ UNCHANGED <<besidesCommunity, dbCommunity, nextMemberId, postsCreated, community,
                   cvLoading, isMember, cvLoad, createVars>>

\* memberCount: community.memberCount - 1 / + 1, from the community of the render
ClosureCountPlus(c, delta) == c.memberCount + delta

\* communities.update answered; setCommunity(...); setIsMember(false)
LeaveCounted(h) ==
    /\ joinLeave[h].pc = "lCount"
    /\ LET n == ClosureCountPlus(joinLeave[h].community, -1)
       IN  /\ dbCommunity' = [dbCommunity EXCEPT !.memberCount = n]
           /\ community' = [joinLeave[h].community EXCEPT !.memberCount = n]
    /\ isMember' = FALSE
    /\ joinLeave' = [joinLeave EXCEPT ![h] = JoinIdle]
    /\ UNCHANGED <<besidesCommunity, dbMembers, nextMemberId, postsCreated, cvLoading,
                   cvLoad, createVars>>

\* Join: communityMembers.create answered (no list before it)
JoinCreated(h) ==
    /\ joinLeave[h].pc = "jCreate"
    /\ dbMembers' = dbMembers \cup {nextMemberId}
    /\ nextMemberId' = nextMemberId + 1
    /\ joinLeave' = [joinLeave EXCEPT ![h].pc = "jCount"]
    /\ UNCHANGED <<besidesCommunity, dbCommunity, postsCreated, community, cvLoading,
                   isMember, cvLoad, createVars>>

\* communities.update answered; setCommunity(...); setIsMember(true)
JoinCounted(h) ==
    /\ joinLeave[h].pc = "jCount"
    /\ LET n == ClosureCountPlus(joinLeave[h].community, 1)
       IN  /\ dbCommunity' = [dbCommunity EXCEPT !.memberCount = n]
           /\ community' = [joinLeave[h].community EXCEPT !.memberCount = n]
    /\ isMember' = TRUE
    /\ joinLeave' = [joinLeave EXCEPT ![h] = JoinIdle]
    /\ UNCHANGED <<besidesCommunity, dbMembers, nextMemberId, postsCreated, cvLoading,
                   cvLoad, createVars>>

\* The awaited call rejects: the catch block logs.
JoinLeaveFails(h) ==
    /\ joinLeave[h].pc # "idle"
    /\ joinLeave' = [joinLeave EXCEPT ![h] = JoinIdle]
    /\ UNCHANGED <<besidesCommunity, memberVars, community, cvLoading, isMember, cvLoad,
                   createVars>>

\* --------------------------------------------------------------- CreatePost
PostTypes == {"text", "image", "video"}

SubmitIdle == [pc |-> "idle", result |-> "none", title |-> "",
               selectedCommunity |-> NoSelection, postType |-> "text",
               imageFile |-> FALSE, videoFile |-> FALSE, communities |-> NoCommunity,
               uploaded |-> FALSE]

\* useEffect: loadCommunities; setCommunities(communitiesData)
LoadCommunities ==
    /\ communities' = dbCommunity
    /\ communities # dbCommunity
    /\ UNCHANGED <<besidesCommunity, memberVars, communityVars, formFields, cpLoading,
                   uploading, submit>>

SetTitle(t) ==
    /\ title' = t /\ title # t
    /\ UNCHANGED <<besidesCommunity, memberVars, communityVars, selectedCommunity,
                   postType, imageFile, videoFile, communities, cpLoading, uploading,
                   submit>>

\* The options of the select are the loaded communities.
SelectCommunity ==
    /\ communities # NoCommunity
    /\ selectedCommunity' = TheCommunity /\ selectedCommunity # TheCommunity
    /\ UNCHANGED <<besidesCommunity, memberVars, communityVars, title, postType,
                   imageFile, videoFile, communities, cpLoading, uploading, submit>>

SetPostType(pt) ==
    /\ postType' = pt /\ postType # pt
    /\ UNCHANGED <<besidesCommunity, memberVars, communityVars, title, selectedCommunity,
                   imageFile, videoFile, communities, cpLoading, uploading, submit>>

\* setImageFile(e.target.files?.[0] || null)
ChooseImage(f) ==
    /\ imageFile' = f /\ imageFile # f
    /\ UNCHANGED <<besidesCommunity, memberVars, communityVars, title, selectedCommunity,
                   postType, videoFile, communities, cpLoading, uploading, submit>>

ChooseVideo(f) ==
    /\ videoFile' = f /\ videoFile # f
    /\ UNCHANGED <<besidesCommunity, memberVars, communityVars, title, selectedCommunity,
                   postType, imageFile, communities, cpLoading, uploading, submit>>

\* `!title.trim() || !selectedCommunity`
MissingInformation == Trim(title) = "" \/ selectedCommunity = NoSelection

\* handleSubmit is called while nothing is loading or uploading (the button is
\* also disabled on missing information; the guard of the handler is what is
\* modelled): toast 'Missing information' and return.
SubmitRejected ==
    /\ submit.pc = "idle"
    /\ ~cpLoading /\ ~uploading
    /\ MissingInformation
    /\ submit' = [SubmitIdle EXCEPT !.result = "rejected"]
    /\ UNCHANGED <<besidesCommunity, memberVars, communityVars, formFields, communities,
                   cpLoading, uploading>>

\* The guard passes: setLoading(true); the upload the post type asks for is
\* started (setUploading(true)), or the post is created at once.
SubmitStart ==
    /\ submit.pc = "idle"
    /\ ~cpLoading /\ ~uploading
    /\ ~MissingInformation
    /\ MembersBudget < MaxMembers
    /\ postsCreated < MaxPosts
    /\ cpLoading' = TRUE
    /\ LET pc == IF postType = "image" /\ imageFile THEN "image"
                 ELSE IF postType = "video" /\ videoFile THEN "video"
                 ELSE "create"
       IN  /\ submit' = [pc |-> pc, result |-> "running", title |-> title,
                         selectedCommunity |-> selectedCommunity,
                         postType |-> postType, imageFile |-> imageFile,
                         videoFile |-> videoFile, communities |-> communities,
                         uploaded |-> FALSE]
           /\ uploading' = (pc # "create")
    /\ UNCHANGED <<besidesCommunity, memberVars, communityVars, formFields, communities>>

\* blink.storage.upload answered: the url is returned, setUploading(false)
UploadAnswered ==
    /\ submit.pc \in {"image", "video"}
    /\ uploading' = FALSE
    /\ submit' = [submit EXCEPT !.pc = "create", !.uploaded = TRUE]
    /\ UNCHANGED <<besidesCommunity, memberVars, communityVars, formFields, communities,
                   cpLoading>>

\* A failed upload goes on to create the post without the url.
UploadFailureIgnored == submit' = [submit EXCEPT !.pc = "create"] /\ UNCHANGED cpLoading

\* `if (!imageUrl) return` inside the try: finally setLoading(false)
UploadFailureReturns ==
    submit' = [submit EXCEPT !.pc = "idle", !.result = "uploadFailed"] /\ cpLoading' = FALSE

\* blink.storage.upload rejects: toast 'Upload failed', null is returned,
\* setUploading(false).
UploadFails ==
    /\ submit.pc \in {"image", "video"}
    /\ uploading' = FALSE
    /\ UploadFailureReturns
    /\ UNCHANGED <<besidesCommunity, memberVars, communityVars, formFields, communities>>

\* blink.db.posts.create answered
PostCreated ==
    /\ submit.pc = "create"
    /\ postsCreated' = postsCreated + 1
    /\ submit' = [submit EXCEPT !.pc = "members"]
    /\ UNCHANGED <<besidesCommunity, dbMembers, dbCommunity, nextMemberId, communityVars,
                   formFields, communities, cpLoading, uploading>>

\* toast 'Post created!', the form is reset, onViewChange('home'); finally
SubmitDone ==
    /\ title' = "" /\ selectedCommunity' = NoSelection
    /\ imageFile' = FALSE /\ videoFile' = FALSE
    /\ cpLoading' = FALSE
    /\ submit' = [submit EXCEPT !.pc = "idle", !.result = "ok"]
    /\ UNCHANGED <<postType, communities, uploading>>

\* communityMembers.list answered
ExistingMembershipListed ==
    /\ submit.pc = "members"
    /\ IF dbMembers = {}
       THEN /\ submit' = [submit EXCEPT !.pc = "mCreate"]
            /\ UNCHANGED createVarsButSubmit
       ELSE SubmitDone
    /\ UNCHANGED <<besidesCommunity, memberVars, communityVars>>

\* communityMembers.create answered; communities.find(c => c.id === selected)
AutoJoinCreated ==
    /\ submit.pc = "mCreate"
    /\ dbMembers' = dbMembers \cup {nextMemberId}
    /\ nextMemberId' = nextMemberId + 1
    /\ IF submit.communities # NoCommunity
       THEN /\ submit' = [submit EXCEPT !.pc = "mCount"]
            /\ UNCHANGED createVarsButSubmit
       ELSE SubmitDone
    /\ UNCHANGED <<besidesCommunity, dbCommunity, postsCreated, communityVars>>

\* communities.update(selectedCommunity, { memberCount: community.memberCount + 1 })
AutoJoinCounted ==
    /\ submit.pc = "mCount"
    /\ dbCommunity' = [dbCommunity EXCEPT
                          !.memberCount = ClosureCountPlus(submit.communities, 1)]
    /\ SubmitDone
    /\ UNCHANGED <<besidesCommunity, dbMembers, nextMemberId, postsCreated, communityVars>>

\* A store call of handleSubmit rejects: toast 'Failed to create post'; finally
SubmitFails ==
    /\ submit.pc \in {"create", "members", "mCreate", "mCount"}
    /\ cpLoading' = FALSE
    /\ submit' = [submit EXCEPT !.pc = "idle", !.result = "failed"]
    /\ UNCHANGED <<besidesCommunity, memberVars, communityVars, formFields, communities,
                   uploading>>

CommunityNotMounted ==
    /\ dbMembers = {} /\ dbCommunity = NoCommunity /\ nextMemberId = 1
    /\ postsCreated = 0
    /\ community = NoCommunity /\ cvLoading = FALSE /\ isMember = FALSE
    /\ cvLoad = LoadIdle
    /\ joinLeave = [h \in Slots |-> JoinIdle]
    /\ title = "" /\ selectedCommunity = NoSelection /\ postType = "text"
    /\ imageFile = FALSE /\ videoFile = FALSE /\ communities = NoCommunity
    /\ cpLoading = FALSE /\ uploading = FALSE
    /\ submit = SubmitIdle

\* ------------------------------------------------------ ModerationDashboard
ModPostIds == {1, 2}
PostActions == {"delete", "lock", "pin", "hide"}
ActionIdle == [pc |-> "idle", postId |-> 0, action |-> "none", posts |-> <<>>]

\* The effect loads for every user.
LoadsForAnyone(u) == TRUE

\* useEffect: `if (user.isAdmin || user.isModerator) loadModerationData()`
ShouldLoad(u) == u.isAdmin \/ u.isModerator

\* `if (!user.isAdmin && !user.isModerator) return <Access Denied>`
AccessDenied(u) == ~u.isAdmin /\ ~u.isModerator

\* What the dashboard renders.
ModView ==
    IF AccessDenied(modUser) THEN "denied"
    ELSE IF modLoading THEN "loading"
    ELSE "dashboard"

ModerationNotMounted ==
    /\ modUser = [isAdmin |-> FALSE, isModerator |-> FALSE]
    /\ dbModPosts = <<>>
    /\ modPosts = <<>>
    /\ modLoading = FALSE
    /\ actionLoading = 0
    /\ modLoad = [pc |-> "idle"]
    /\ postAction = ActionIdle
    /\ modCalled = FALSE
    /\ modNavigated = FALSE

\* The effect runs after the first render.
ModerationEffect ==
    /\ modLoad.pc = "mounted"
    /\ IF ShouldLoad(modUser)
       THEN /\ modLoad' = [pc |-> "posts"]
            /\ modLoading' = TRUE
            /\ modCalled' = TRUE
       ELSE /\ modLoad' = [pc |-> "skipped"]
            /\ UNCHANGED <<modLoading, modCalled>>
    /\ UNCHANGED <<besidesModeration, modUser, dbModPosts, modPosts, actionLoading,
                   postAction, modNavigated>>

\* posts.list and the enrichment answered: setPosts(enrichedPosts); finally
ModerationLoaded ==
    /\ modLoad.pc = "posts"
    /\ modPosts' = dbModPosts
    /\ modLoading' = FALSE
    /\ modLoad' = [pc |-> "done"]
    /\ UNCHANGED <<besidesModeration, modUser, dbModPosts, actionLoading, postAction,
                   modCalled, modNavigated>>

\* A call of loadModerationData rejects: toast 'Error loading data'; finally
ModerationLoadFails ==
    /\ modLoad.pc = "posts"
    /\ modLoading' = FALSE
    /\ modLoad' = [pc |-> "done"]
    /\ UNCHANGED <<besidesModeration, modUser, dbModPosts, modPosts, actionLoading,
                   postAction, modCalled, modNavigated>>

\* disabled={actionLoading === post.id || post.isPinned} and the like
ActionEnabled(pid, action) ==
    /\ actionLoading # pid
    /\ action = "pin" => ~modPosts[pid].isPinned
    /\ action = "lock" => ~modPosts[pid].isLocked

\* A moderation button of a listed post is clicked: handlePostAction(id, action);
\* setActionLoading(postId) and the store call is issued.
ClickPostAction(pid, action) ==
    /\ ModView = "dashboard" /\ ~modNavigated
    /\ pid \in DOMAIN modPosts
    /\ ActionEnabled(pid, action)
    /\ postAction.pc = "idle"
    /\ postAction' = [pc |-> "call", postId |-> pid, action |-> action,
                      posts |-> modPosts]
    /\ actionLoading' = pid
    /\ modCalled' = TRUE
    /\ UNCHANGED <<besidesModeration, modUser, dbModPosts, modPosts, modLoading,
                   modLoad, modNavigated>>

\* updates of the switch
Updated(p, action) ==
    CASE action = "lock" -> [p EXCEPT !.isLocked = TRUE]
      [] action = "pin" -> [p EXCEPT !.isPinned = TRUE]
      [] action = "hide" -> [p EXCEPT !.isHidden = TRUE]

Without(posts, pid) == [k \in DOMAIN posts \ {pid} |-> posts[k]]

\* posts.delete / posts.update answered; setPosts over the posts of the
\* render; finally setActionLoading(null)
PostActionAnswered ==
    /\ postAction.pc = "call"
    /\ LET pid == postAction.postId
           action == postAction.action
       IN  IF action = "delete"
           THEN /\ dbModPosts' = Without(dbModPosts, pid)
                /\ modPosts' = Without(postAction.posts, pid)
           ELSE /\ dbModPosts' = IF pid \in DOMAIN dbModPosts
                                 THEN [dbModPosts EXCEPT ![pid] = Updated(@, action)]
                                 ELSE dbModPosts
                /\ modPosts' = [postAction.posts EXCEPT ![pid] = Updated(@, action)]
    /\ actionLoading' = 0
    /\ postAction' = ActionIdle
    /\ UNCHANGED <<besidesModeration, modUser, modLoading, modLoad, modCalled,
                   modNavigated>>

\* The call rejects: toast 'Action failed'; finally setActionLoading(null)
PostActionFails ==
    /\ postAction.pc = "call"
    /\ actionLoading' = 0
    /\ postAction' = ActionIdle
    /\ UNCHANGED <<besidesModeration, modUser, dbModPosts, modPosts, modLoading,
                   modLoad, modCalled, modNavigated>>

\* 'Go Home', the one button of the access-denied view
GoHome ==
    /\ ModView = "denied" /\ ~modNavigated
    /\ modLoad.pc # "mounted"
    /\ modNavigated' = TRUE
    /\ UNCHANGED <<besidesModeration, modUser, dbModPosts, modPosts, modLoading,
                   actionLoading, modLoad, postAction, modCalled>>

\* ----------------------------------------------------------- SpecTrending
\* The posts the store holds: ages on both sides of every cutoff, scores
\* below, at and above zero, an old post with a higher raw score than a new one.
PostKinds ==
    {[hoursOld |-> 1, upvotes |-> 1, downvotes |-> 0],
     [hoursOld |-> 2, upvotes |-> 0, downvotes |-> 0],
     [hoursOld |-> 24, upvotes |-> 2, downvotes |-> 0],
     [hoursOld |-> 30, upvotes |-> 0, downvotes |-> 1],
     [hoursOld |-> 168, upvotes |-> 2, downvotes |-> 1],
     [hoursOld |-> 700, upvotes |-> 2, downvotes |-> 0]}

FetchedLengths == (0..3) \cup {MaxFetched}

\* n posts whose kinds repeat the pattern; the post with id i is the i-th.
PostsOf(pattern, n) ==
    [i \in 1..n |->
        LET k == pattern[((i - 1) % Len(pattern)) + 1]
        IN  [id |-> i, hoursOld |-> k.hoursOld, upvotes |-> k.upvotes,
             downvotes |-> k.downvotes]]

\* orderBy: { createdAt: 'desc' }: the newest post first.
RECURSIVE InsertByAge(_, _)
InsertByAge(sorted, x) ==
    IF sorted = <<>> THEN <<x>>
    ELSE IF x.hoursOld < Head(sorted).hoursOld THEN <<x>> \o sorted
    ELSE <<Head(sorted)>> \o InsertByAge(Tail(sorted), x)

RECURSIVE NewestFirst(_)
NewestFirst(list) ==
    IF list = <<>> THEN <<>>
    ELSE InsertByAge(NewestFirst(SubSeq(list, 1, Len(list) - 1)), list[Len(list)])

\* The page is mounted: loading is true and the effect has started the load.
InitTrending ==
    /\ ThreadsNotMounted
    /\ \E len \in 1..3, n \in FetchedLengths :
          \E pattern \in [1..len -> PostKinds] :
              allPosts = NewestFirst(PostsOf(pattern, n))
    /\ timeframe = "day"
    /\ trendingPosts = <<>>
    /\ trendingLoading = TRUE
    /\ trendingLoad = [NoLoad EXCEPT !.pc = "posts"]
    /\ CardsMounted
    /\ NotificationsNotLoaded
    /\ CommunityNotMounted
    /\ ModerationNotMounted

NextTrending ==
    \/ \E tf \in Timeframes : SelectTimeframe(tf)
    \/ TrendingListPosts
    \/ TrendingSetPosts
    \/ TrendingFinish
    \/ TrendingFail

SpecTrending == InitTrending /\ [][NextTrending]_vars

\* ---------------------------------------------------------- SpecCommunity
\* A community with one member that the user has not joined.
InitialCommunity == [memberCount |-> 1]

StoreOfCommunity ==
    /\ dbMembers = {} /\ dbCommunity = InitialCommunity /\ nextMemberId = 1
    /\ postsCreated = 0

\* The community view is opened (its effect has called loadCommunity); the
\* create-post form has loaded its communities and holds a title and a
\* community.
InitCommunity ==
    /\ ThreadsNotMounted /\ CardsMounted /\ TrendingNotMounted /\ NotificationsNotLoaded
    /\ ModerationNotMounted
    /\ StoreOfCommunity
    /\ community = NoCommunity /\ cvLoading = TRUE /\ isMember = FALSE
    /\ cvLoad = [pc |-> "community"]
    /\ joinLeave = [h \in Slots |-> JoinIdle]
    /\ title = " hi " /\ selectedCommunity = TheCommunity /\ postType = "text"
    /\ imageFile = FALSE /\ videoFile = FALSE /\ communities = InitialCommunity
    /\ cpLoading = FALSE /\ uploading = FALSE
    /\ submit = SubmitIdle

NextCommunity ==
    \/ OpenCommunity \/ CommunityListed \/ MembershipListed \/ LoadCommunityFails
    \/ \E h \in Slots :
          \/ ClickJoinLeave(h)
          \/ LeaveListed(h) \/ LeaveDeleted(h) \/ LeaveCounted(h)
          \/ JoinCreated(h) \/ JoinCounted(h)
          \/ JoinLeaveFails(h)
    \/ LoadCommunities
    \/ \E t \in Texts : SetTitle(t)
    \/ SelectCommunity
    \/ SubmitStart \/ PostCreated \/ ExistingMembershipListed
    \/ AutoJoinCreated \/ AutoJoinCounted
    \/ SubmitFails

SpecCommunity == InitCommunity /\ [][NextCommunity]_vars

\* ------------------------------------------------------------- SpecCreate
\* The create-post view is opened with an empty form.
InitCreate ==
    /\ ThreadsNotMounted /\ CardsMounted /\ TrendingNotMounted /\ NotificationsNotLoaded
    /\ ModerationNotMounted
    /\ StoreOfCommunity
    /\ community = NoCommunity /\ cvLoading = FALSE /\ isMember = FALSE
    /\ cvLoad = LoadIdle
    /\ joinLeave = [h \in Slots |-> JoinIdle]
    /\ title = "" /\ selectedCommunity = NoSelection /\ postType = "text"
    /\ imageFile = FALSE /\ videoFile = FALSE /\ communities = NoCommunity
    /\ cpLoading = FALSE /\ uploading = FALSE
    /\ submit = SubmitIdle

NextCreate ==
    \/ LoadCommunities
    \/ \E t \in Texts : SetTitle(t)
    \/ SelectCommunity
    \/ \E pt \in PostTypes : SetPostType(pt)
    \/ \E f \in BOOLEAN : ChooseImage(f) \/ ChooseVideo(f)
    \/ SubmitRejected \/ SubmitStart
    \/ UploadAnswered \/ UploadFails
    \/ PostCreated \/ ExistingMembershipListed
    \/ AutoJoinCreated \/ AutoJoinCounted
    \/ SubmitFails

SpecCreate == InitCreate /\ [][NextCreate]_vars

\* ------------------------------------------------------------- SpecNotify
\* The user is signed in: the auth callback has called loadNotifications.
InitNotify ==
    /\ ThreadsNotMounted
    /\ CardsMounted
    /\ TrendingNotMounted
    /\ CommunityNotMounted
    /\ ModerationNotMounted
    /\ dbNotifications \in [NotificationIds -> BOOLEAN]
    /\ notifications = <<>>
    /\ unreadCount = 0
    /\ marking = [n \in NotificationIds |-> 0]
    /\ notifLoad = [NotifIdle EXCEPT !.pc = "list"]
    /\ markAll = NotifIdle

NextNotify ==
    \/ LoadNotifications \/ LoadNotificationsList \/ LoadNotificationsSet
    \/ LoadNotificationsFail
    \/ \E n \in NotificationIds : ClickNotification(n) \/ MarkAnswered(n) \/ MarkFails(n)
    \/ MarkAllAsRead \/ MarkAllUpdated \/ MarkAllFails

SpecNotify == InitNotify /\ [][NextNotify]_vars

\* ---------------------------------------------------------- SpecModeration
\* The dashboard is mounted for a user of any role; the store holds two posts.
InitModeration ==
    /\ ThreadsNotMounted /\ CardsMounted /\ TrendingNotMounted /\ NotificationsNotLoaded
    /\ CommunityNotMounted
    /\ modUser \in [isAdmin : BOOLEAN, isModerator : BOOLEAN]
    /\ dbModPosts \in [ModPostIds -> [isLocked : BOOLEAN, isPinned : BOOLEAN,
                                      isHidden : {FALSE}]]
    /\ modPosts = <<>>
    /\ modLoading = TRUE
    /\ actionLoading = 0
    /\ modLoad = [pc |-> "mounted"]
    /\ postAction = ActionIdle
    /\ modCalled = FALSE
    /\ modNavigated = FALSE

NextModeration ==
    \/ ModerationEffect \/ ModerationLoaded \/ ModerationLoadFails
    \/ \E pid \in ModPostIds, action \in PostActions : ClickPostAction(pid, action)
    \/ PostActionAnswered \/ PostActionFails
    \/ GoHome

SpecModeration == InitModeration /\ [][NextModeration]_vars

ViewsNotMounted ==
    /\ TrendingNotMounted /\ CardsMounted /\ NotificationsNotLoaded
    /\ CommunityNotMounted /\ ModerationNotMounted

\* ------------------------------------------------------------------- Spec
\* A fresh post (upvotes 0, commentCount 0), the home feed loaded, and the
\* post-detail view mounted: its effect has called loadPostAndComments.
FreshPost == [id |-> postId, commentCount |-> 0, upvotes |-> 0, downvotes |-> 0]

MountFrame == [IdleFrame EXCEPT !.pc = "rPost", !.kind = "mount",
                                !.inLoadPost = TRUE, !.result = "running"]

InitView ==
    /\ treeInput = <<>>
    /\ treeOut = NotBuilt
    /\ post = NoPost
    /\ comments = EmptyTree
    /\ loading = TRUE
    /\ newComment = ""
    /\ replyingTo = NoParent
    /\ replyText = ""
    /\ collapsedComments = {}
    /\ navigated = FALSE
    /\ frame = [h \in Slots |-> IF h = 1 THEN MountFrame ELSE IdleFrame]
    /\ pre = [h \in Slots |-> NoSnapshot]
    /\ clicks = 0
    /\ streak = NoStreak
    /\ remote = NoRemote
    /\ ViewsNotMounted

Init ==
    /\ dbVotes = {}
    /\ dbComments = <<>>
    /\ dbPosts = [p \in PostIds |-> FreshPost]
    /\ nextVoteId = 1
    /\ feedPosts = [p \in PostIds |-> FreshPost]
    /\ InitView

\* The steps of the handlers of the post-detail view.
Reload(h) ==
    \/ LoadPost(h) \/ LoadPostSet(h) \/ LoadComments(h) \/ LoadCommentsSet(h)

DetailVote(h, ids, cap) ==
    \/ \E vt \in VoteTypes : StartVote(h, postId, "post", vt, cap)
    \/ \E id \in ids, vt \in VoteTypes : StartVote(h, id, "comment", vt, cap)
    \/ VoteList(h) \/ VoteMutate(h)

Submit(h, ids, cap) ==
    \/ StartComment(h, cap)
    \/ \E id \in ids : StartReply(h, id, cap)
    \/ CommentCreate(h) \/ CommentCount(h)

FormInput(ids) ==
    \/ \E t \in Texts : TypeComment(t)
    \/ \E id \in ids : ClickReply(id)
    \/ \E t \in Texts : TypeReply(t)
    \/ CancelReply

\* One handler at a time: every handler runs in slot 1, and the user acts
\* when it has returned.
Detail ==
    \/ Reload(1)
    \/ DetailVote(1, 1..MaxWrites, MaxWrites)
    \/ Submit(1, 1..MaxWrites, MaxWrites)
    \/ Fail(1)
    \/ FormInput(1..MaxWrites)
    \/ \E id \in 1..MaxWrites : ToggleCollapse(id)

Next == Detail

Spec == Init /\ [][Next]_vars

\* --------------------------------------------------------------- SpecVote
\* The same user votes on the post from the home feed and from the post-detail
\* view; a handler may be invoked while another is awaiting the backend.
ClickVote(h, voteType) ==
    /\ clicks < MaxClicks
    /\ clicks' = clicks + 1
    /\ InvokeVote(h, postId, "post", voteType, MaxClicks)

ClickFeedVote(h, pid, voteType) ==
    /\ clicks < MaxClicks
    /\ clicks' = clicks + 1
    /\ InvokeFeedVote(h, pid, voteType)

NextVote ==
    \E h \in Slots :
        \/ \E vt \in VoteTypes : ClickVote(h, vt)
        \/ \E pid \in PostIds, vt \in VoteTypes : ClickFeedVote(h, pid, vt)
        \/ Reload(h)
        \/ VoteList(h) \/ VoteMutate(h)
        \/ FeedList(h) \/ FeedMutate(h) \/ FeedCount(h)
        \/ Fail(h)

SpecVote == Init /\ [][NextVote]_vars

\* ------------------------------------------------------------- SpecClients
\* A second client (another browser) opens the same post and submits one
\* top-level comment through the same handleSubmitComment, interleaved with
\* this client's steps.  Only its `post` state and its position are kept: the
\* rest of its view is not displayed here.

\* Its loadPostAndComments has set its `post`.
RemoteLoad ==
    /\ remote.pc = "away"
    /\ postId \in DOMAIN dbPosts
    /\ remote' = [pc |-> "loaded", post |-> dbPosts[postId]]
    /\ UNCHANGED <<treeVars, storeVars, detailVars, feedPosts, navigated, frame, pre,
                   clicks, streak, viewVars>>

\* Its comments.create answered.
RemoteCreate ==
    /\ remote.pc = "loaded"
    /\ dbComments' = CommentsCreate(NewComment(Len(dbComments) + 1, "hi", NoParent, 0))
    /\ remote' = [remote EXCEPT !.pc = "cCount"]
    /\ UNCHANGED <<treeVars, dbVotes, dbPosts, nextVoteId, detailVars, feedPosts,
                   navigated, frame, pre, clicks, streak, viewVars>>

\* Its posts.update(postId, { commentCount: post.commentCount + 1 }) answered.
RemoteCount ==
    /\ remote.pc = "cCount"
    /\ dbPosts' = [dbPosts EXCEPT
                     ![postId].commentCount = IncrementedCount(remote.post)]
    /\ remote' = [remote EXCEPT !.pc = "done"]
    /\ UNCHANGED <<treeVars, dbVotes, dbComments, nextVoteId, detailVars, feedPosts,
                   navigated, frame, pre, clicks, streak, viewVars>>

NextClients ==
    \/ Reload(1)
    \/ \E t \in Texts : TypeComment(t)
    \/ StartComment(1, MaxNew + 1)
    \/ CommentCreate(1) \/ CommentCount(1)
    \/ Fail(1)
    \/ RemoteLoad \/ RemoteCreate \/ RemoteCount

SpecClients == Init /\ [][NextClients]_vars

\* -------------------------------------------------------------- SpecDepth
\* The post already holds a chain of replies, each made through the reply form
\* of the one before it (the store after that many submissions); the view
\* mounts and more comments and replies are submitted.
RECURSIVE Chain(_)
Chain(n) ==
    IF n = 0 THEN <<>>
    ELSE IF n = 1 THEN <<NewComment(1, "hi", NoParent, 0)>>
    ELSE LET before == Chain(n - 1)
             tree == buildCommentTree(before)
             depth == RenderDepthIn(tree, tree.roots, n - 1, 0)
         IN  Append(before, NewComment(n, "hi", n - 1, ReplyDepth(depth)))

InitDepth ==
    /\ dbVotes = {}
    /\ dbComments = Chain(MaxChain)
    /\ dbPosts = [p \in PostIds |-> [FreshPost EXCEPT !.commentCount = MaxChain]]
    /\ nextVoteId = 1
    /\ feedPosts = [p \in PostIds |-> [FreshPost EXCEPT !.commentCount = MaxChain]]
    /\ InitView

NextDepth ==
    \/ Reload(1)
    \/ Submit(1, 1..(MaxChain + MaxNew), MaxChain + MaxNew)
    \/ Fail(1)
    \/ FormInput(1..(MaxChain + MaxNew))

SpecDepth == InitDepth /\ [][NextDepth]_vars

\* ---------------------------------------------------------------- SpecTree
\* Flat lists: the i-th comment has id i; a parent reference is null, the id
\* of another comment of the list, or MissingId(n), an id not in the list (a
\* parent that was deleted).  Parent chains are finite (a comment is created
\* after its parent).
MissingId(n) == n + 1

RECURSIVE Ends(_, _, _)
Ends(par, i, fuel) ==
    IF i \notin DOMAIN par THEN TRUE
    ELSE IF fuel = 0 THEN FALSE
    ELSE Ends(par, par[i], fuel - 1)

ParentMaps(n) ==
    {par \in [1..n -> {NoParent} \cup (1..n) \cup {MissingId(n)}] :
        \A i \in 1..n : Ends(par, i, n)}

\* The stored depth is a field of its own: one of these for the comments of a
\* list, whatever their nesting.
StoredDepths == {0, 3}

FlatLists ==
    UNION {{[i \in 1..n |-> [id |-> i, parentId |-> par[i], depth |-> dep,
                             upvotes |-> i, downvotes |-> n - i]]
            : par \in ParentMaps(n), dep \in StoredDepths}
           : n \in 0..MaxLen}

InitTree ==
    /\ treeInput \in FlatLists
    /\ treeOut = NotBuilt
    /\ dbVotes = {} /\ dbComments = <<>> /\ dbPosts = <<>> /\ nextVoteId = 1
    /\ post = NoPost /\ comments = EmptyTree /\ loading = FALSE
    /\ newComment = "" /\ replyingTo = NoParent /\ replyText = ""
    /\ collapsedComments = {} /\ feedPosts = <<>> /\ navigated = FALSE
    /\ frame = [h \in Slots |-> IdleFrame]
    /\ pre = [h \in Slots |-> NoSnapshot]
    /\ clicks = 0
    /\ streak = NoStreak
    /\ remote = NoRemote
    /\ ViewsNotMounted

BuildTree ==
    /\ ~treeOut.built
    /\ treeOut' = buildCommentTree(treeInput)
    /\ UNCHANGED <<treeInput, storeVars, detailVars, feedPosts, navigated, frame, pre,
                   clicks, streak, remote, viewVars>>

NextTree == BuildTree

SpecTree == InitTree /\ [][NextTree]_vars

\* --------------------------------------------------------------- SpecLoad
\* The post-detail view is opened on a post that may or may not be in the
\* store.  App passes a new onViewChange at each of its renders, so the effect
\* of the view calls loadPostAndComments again whenever App renders, also
\* while an earlier load is awaiting the store.
PostMissing == postId \notin DOMAIN dbPosts

LoadRunning(h) == Running(h) /\ frame[h].inLoadPost

\* App renders again: loadPostAndComments is a new callback and the effect
\* runs it; setLoading(true) and posts.list is awaited.
EffectRerun(h) ==
    /\ ~Running(h)
    /\ ~navigated
    /\ frame' = [frame EXCEPT ![h] = MountFrame]
    /\ loading' = TRUE
    /\ UNCHANGED <<treeVars, storeVars, post, comments, formVars, feedPosts,
                   navigated, pre, clicks, streak, remote, viewVars>>

InitLoad ==
    /\ dbVotes = {}
    /\ dbComments \in {flat \in FlatLists : Len(flat) <= MaxStored}
    /\ dbPosts \in {[p \in PostIds |-> FreshPost], <<>>}
    /\ nextVoteId = 1
    /\ feedPosts = dbPosts
    /\ InitView

NextLoad ==
    \E h \in Slots :
        \/ LoadPost(h) \/ LoadPostSet(h) \/ LoadComments(h) \/ LoadCommentsSet(h)
        \/ Fail(h)
        \/ EffectRerun(h)

\* Every call to the store is answered or rejected in the end.
FairLoad == \A h \in Slots : WF_vars(Reload(h) \/ Fail(h))

SpecLoad == InitLoad /\ [][NextLoad]_vars /\ FairLoad

\* ------------------------------------------------------------- properties
Ids(flat) == {flat[i].id : i \in 1..Len(flat)}

\* C1: for every flat list (distinct ids) given to buildCommentTree, the number
\* of nodes of the returned tree equals the number of input comments, and every
\* input comment is in the tree exactly once (none lost, none twice).
C1_NodeCountPreserved ==
    treeOut.built =>
        /\ Len(TreeNodes(treeOut)) = Len(treeInput)
        /\ \A i \in 1..Len(treeInput) :
              Occurrences(TreeNodes(treeOut), treeInput[i].id) = 1

\* C2: a comment whose parent reference is set but names an id that is not in
\* the input list is in the returned root list (promoted, not dropped).
C2_OrphanPromotedToRoot ==
    treeOut.built =>
        \A i \in 1..Len(treeInput) :
            (treeInput[i].parentId # NoParent
                /\ treeInput[i].parentId \notin Ids(treeInput))
            => treeInput[i].id \in SeqToSet(treeOut.roots)

\* The ids and parent references of a flat list.
Shape(flat) == [i \in 1..Len(flat) |-> [id |-> flat[i].id, parentId |-> flat[i].parentId]]

\* A(null), B(A), C(B), D(A) in creation order, with ids 1..4
ExampleABCD == <<[id |-> 1, parentId |-> NoParent], [id |-> 2, parentId |-> 1],
                 [id |-> 3, parentId |-> 2], [id |-> 4, parentId |-> 1]>>

\* C3: a comment whose parent id is in the input list is in the result exactly
\* once, in the replies list of that parent and nowhere else (not at root, not
\* under another node); A(null), B(A), C(B), D(A) gives the single root A with
\* replies [B, D] and B with replies [C].
C3_OnceUnderItsParent ==
    treeOut.built =>
        /\ \A i \in 1..Len(treeInput) :
              LET c == treeInput[i] IN
              c.parentId \in Ids(treeInput) =>
                  /\ Occurrences(TreeNodes(treeOut), c.id) = 1
                  /\ Occurrences(treeOut.replies[c.parentId], c.id) = 1
                  /\ c.id \notin SeqToSet(treeOut.roots)
                  /\ \A other \in Ids(treeInput) \ {c.parentId} :
                        c.id \notin SeqToSet(treeOut.replies[other])
        /\ Shape(treeInput) = ExampleABCD =>
              /\ treeOut.roots = <<1>>
              /\ treeOut.replies[1] = <<2, 4>>
              /\ treeOut.replies[2] = <<3>>
              /\ treeOut.replies[3] = <<>> /\ treeOut.replies[4] = <<>>

\* C4: in every reachable state of the vote store there is at most one vote
\* record per (user, target) pair, whatever the interleaving of submissions
\* from the home feed and the post-detail view.
C4_OneVotePerUserAndTarget ==
    \A pid \in PostIds : Cardinality(VotesOf(TheUser, pid, "post")) <= 1

\* C5: starting from no vote record on a target, two successive completed
\* submissions of the same direction leave no vote record for the pair.
C5_SameDirectionTwiceRetracts ==
    streak.n = 2 => VotesOf(TheUser, streak.targetId, streak.targetType) = {}

C5_Witness ==
    /\ streak.n = 2
    /\ streak.voteType = "upvote"
    /\ frame[1].kind = "vote" /\ frame[1].result = "ok"

\* The records of the pair the handler of slot h votes on, as they were when
\* it was invoked.
PairBefore(h) ==
    {v \in pre[h].votes : /\ v.userId = TheUser
                          /\ v.targetId = frame[h].targetId
                          /\ v.targetType = frame[h].targetType}

\* The vote handler of slot h has written to the vote store.
VoteWritten(h) == frame[h].kind = "vote" /\ frame[h].pc \in ReloadPcs

\* C6: when the pair has exactly one record and the submission is of the other
\* direction, the completed submission leaves exactly one record for the pair:
\* the same id, with the submitted direction.
C6_OppositeDirectionUpdatesInPlace ==
    \A r \in PairBefore(1) :
        (VoteWritten(1) /\ PairBefore(1) = {r} /\ r.voteType # frame[1].voteType)
        => VotesOf(TheUser, frame[1].targetId, frame[1].targetType)
               = {[r EXCEPT !.voteType = frame[1].voteType]}

C6_Witness ==
    /\ VoteWritten(1)
    /\ \E r \in PairBefore(1) :
          /\ PairBefore(1) = {r}
          /\ r.voteType = "upvote"
          /\ frame[1].voteType = "downvote"
          /\ VotesOf(TheUser, frame[1].targetId, frame[1].targetType)
                = {[r EXCEPT !.voteType = "downvote"]}

\* upvotes - downvotes of the record shown for a target
DisplayedScore(d, targetId, targetType) ==
    IF targetType = "post" THEN d.post.upvotes - d.post.downvotes
    ELSE d.comments.node[targetId].upvotes - d.comments.node[targetId].downvotes

\* What a vote does to the net score of its target.
VoteEffect(existing, voteType) ==
    LET sign == IF voteType = "upvote" THEN 1 ELSE -1
    IN  IF existing = NoVote THEN sign
        ELSE IF existing.voteType = voteType THEN -sign
        ELSE 2 * sign

\* C7: when a vote action of the post-detail view completes (the write and the
\* reload after it), the displayed net score of the target reflects the vote:
\* a first upvote raises it by 1, a retraction takes the vote's effect back,
\* a change from upvote to downvote lowers it by 2.
C7_DisplayedScoreReflectsVote ==
    [][(LoadCommentsSet(1) /\ frame[1].kind = "vote")
        => DisplayedScore(Display', frame[1].targetId, frame[1].targetType)
             = DisplayedScore(pre[1].display, frame[1].targetId,
                              frame[1].targetType)
               + VoteEffect(frame[1].existing, frame[1].voteType)]_vars

\* C8: every stored comment satisfies the depth invariant: a top-level comment
\* has depth 0, a reply has depth min(stored depth of its parent + 1, 10), and
\* no stored depth exceeds 10.
C8_DepthInvariant ==
    \A i \in 1..Len(dbComments) :
        LET c == dbComments[i] IN
        /\ c.depth <= 10
        /\ c.parentId = NoParent => c.depth = 0
        /\ c.parentId # NoParent =>
              /\ c.parentId \in 1..Len(dbComments)
              /\ c.depth = Min(dbComments[c.parentId].depth + 1, 10)

C8_Witness ==
    /\ Len(dbComments) > MaxChain
    /\ LET c == dbComments[Len(dbComments)]
       IN  /\ c.parentId # NoParent
           /\ dbComments[c.parentId].depth = 10
           /\ c.depth = 10

\* C9: every successful comment or reply submission increments the post's
\* stored commentCount by exactly one (so n submissions in a row from one open
\* view leave it at its loaded value plus n).
C9_CountIncrementsByOne ==
    [][CommentCount(1)
        => dbPosts'[postId].commentCount = dbPosts[postId].commentCount + 1]_vars

ActionKinds == {"vote", "comment", "reply"}

\* C10 as stated: when a backend call made by a vote, comment or reply action
\* fails, the displayed state (post, tree, collapsed set, open reply form,
\* typed text) is exactly what it was before the action started.
C10_FailureLeavesDisplayAsBefore ==
    [][(Fail(1) /\ frame[1].kind \in ActionKinds)
        => Display' = pre[1].display]_vars

\* C10 as amended: a failure before the reload (vote lookup or write,
\* comments.create, the commentCount update) leaves the displayed state exactly
\* as before the action; a failure inside the reload that follows the write
\* leaves the tree and the collapsed set as before, with the submitted form
\* cleared (comment text; reply text and open reply form), and after a vote on
\* the post the post may already be the reloaded one.
C10_FailureBeforeReloadLeavesDisplay ==
    [][(Fail(1) /\ frame[1].kind \in ActionKinds) =>
        LET f == frame[1]
            was == pre[1].display
        IN  /\ f.pc \notin ReloadPcs => Display' = was
            /\ f.pc \in ReloadPcs =>
                  /\ comments' = was.comments
                  /\ collapsedComments' = was.collapsedComments
                  /\ f.kind = "vote" =>
                        /\ newComment' = was.newComment
                        /\ replyText' = was.replyText
                        /\ replyingTo' = was.replyingTo
                        /\ (f.targetType = "comment" \/ f.pc \in {"rPost", "rPostSet"})
                              => post' = was.post
                  /\ f.kind = "comment" =>
                        /\ post' = was.post
                        /\ newComment' = ""
                        /\ replyText' = was.replyText
                        /\ replyingTo' = was.replyingTo
                  /\ f.kind = "reply" =>
                        /\ post' = was.post
                        /\ replyText' = ""
                        /\ replyingTo' = NoParent
                        /\ newComment' = was.newComment]_vars

C10_Witness ==
    /\ frame[1].result = "failed"
    /\ frame[1].kind = "reply"
    /\ frame[1].at = "cCount"
    /\ replyText # "" /\ replyingTo # NoParent

\* The error notifications of the post-detail view.
ErrorToasts == {"Error voting", "Error loading post", "Error loading comments",
                "Error posting comment", "Error posting reply"}

\* C11: every backend failure in a post-detail operation (loading the post,
\* loading comments, voting, commenting, replying) shows an error toast; no
\* failure ends with a log entry only.
C11_FailureShowsErrorToast ==
    frame[1].result = "failed" => frame[1].toast \in ErrorToasts

\* Ids of the comments nested under comment id in the displayed tree.
Descendants(id) == SeqToSet(Flatten(comments, comments.replies[id]))

\* C12: a rendered comment that is in the collapsed set shows its text, none
\* of its descendants and no action row; a rendered comment that is not in the
\* collapsed set shows its text, its action row and all its direct replies.
C12_CollapseHidesDescendants ==
    \A id \in Rendered :
        /\ TextShown(id)
        /\ id \in collapsedComments =>
              /\ Descendants(id) \cap Rendered = {}
              /\ ~ActionRowShown(id)
        /\ id \notin collapsedComments =>
              /\ ActionRowShown(id)
              /\ SeqToSet(comments.replies[id]) \subseteq Rendered

C12_Witness ==
    \E id \in collapsedComments :
        /\ id \in Rendered
        /\ comments.replies[id] # <<>>
        /\ \E other \in Rendered \ collapsedComments : other # id

CommentIds == 1..MaxWrites

\* C13 as stated: the collapsed flag and the reply-form-open flag are
\* independent per comment id: opening or closing the reply form of X changes
\* neither the reply-form-open flag nor the collapsed flag of any other comment
\* Y, and toggling collapse of X changes no reply-form-open flag (so two
\* comments can have their reply forms open at the same time).
C13_FlagsIndependentPerComment ==
    [][\A x \in CommentIds :
          /\ ClickReply(x) =>
                /\ collapsedComments' = collapsedComments
                /\ \A y \in CommentIds \ {x} : ReplyFormOpen(y)' = ReplyFormOpen(y)
          /\ ToggleCollapse(x) =>
                \A y \in CommentIds : ReplyFormOpen(y)' = ReplyFormOpen(y)]_vars

\* C13 as amended: the collapsed flags and the reply form are independent of
\* each other (the Reply button changes no collapsed flag, the collapse button
\* changes neither which reply form is open nor its text), but one reply form
\* is open at a time: the Reply button of X flips X's form and leaves the form
\* of every other comment closed.
C13_OneReplyFormIndependentOfCollapse ==
    [][\A x \in CommentIds :
          /\ ClickReply(x) =>
                /\ collapsedComments' = collapsedComments
                /\ ReplyFormOpen(x)' = ~ReplyFormOpen(x)
                /\ \A y \in CommentIds \ {x} : ~ReplyFormOpen(y)'
          /\ ToggleCollapse(x) =>
                /\ \A y \in CommentIds : ReplyFormOpen(y)' = ReplyFormOpen(y)
                /\ replyText' = replyText]_vars

C13_Witness ==
    /\ replyingTo # NoParent
    /\ replyingTo \in collapsedComments
    /\ replyingTo \in Rendered

\* Where the comment with this id stands in the input list.
PosOf(flat, id) == CHOOSE i \in 1..Len(flat) : flat[i].id = id

InInputOrder(flat, list) ==
    \A i, j \in 1..Len(list) : i < j => PosOf(flat, list[i]) < PosOf(flat, list[j])

IsTopLevel(c) == c.parentId = NoParent

TopLevelIds(flat) ==
    LET top == SelectSeq(flat, IsTopLevel)
    IN  [i \in 1..Len(top) |-> top[i].id]

\* C14: buildCommentTree preserves input order: the comments of the root list
\* and of every replies list stand in the order they have in the input, and
\* the root list is the top-level (null-parent) comments in input order.
C14_InputOrderPreserved ==
    treeOut.built =>
        /\ InInputOrder(treeInput, treeOut.roots)
        /\ \A id \in Ids(treeInput) : InInputOrder(treeInput, treeOut.replies[id])
        /\ treeOut.roots = TopLevelIds(treeInput)

C14_Witness ==
    /\ treeOut.built
    /\ Len(treeOut.roots) >= 2
    /\ \E id \in Ids(treeInput) : Len(treeOut.replies[id]) >= 2

\* Nesting depth of each node of a tree that holds all of them.
PositionDepth(tree, id) == RenderDepthIn(tree, tree.roots, id, 0)

\* C15: buildCommentTree is pure: it writes no replies list onto the input
\* records, and each output node carries the id, parent reference, stored
\* depth and vote counters of its input record (the depth is not recomputed
\* from the position in the tree).
C15_TreeConstructionIsPure ==
    treeOut.built =>
        /\ treeOut.written = {}
        /\ \A i \in 1..Len(treeInput) :
              LET c == treeInput[i]
                  n == treeOut.node[c.id]
              IN  /\ n.id = c.id
                  /\ n.parentId = c.parentId
                  /\ n.depth = c.depth
                  /\ n.upvotes = c.upvotes
                  /\ n.downvotes = c.downvotes

C15_Witness ==
    /\ treeOut.built
    /\ \E id \in Ids(treeInput) :
          /\ treeOut.replies[id] # <<>>
          /\ PositionDepth(treeOut, id) = 0
          /\ treeOut.node[id].depth = 3
          /\ treeOut.node[treeOut.replies[id][1]].depth = 3
          /\ PositionDepth(treeOut, treeOut.replies[id][1]) = 1

\* C16: in the post-detail view every successful mutation (vote, comment,
\* reply) is followed, before its handler finishes, by a reload: after its last
\* write the handler requests the comment list (for a post vote: the post, then
\* the comments), and a handler that ends without a failure has replaced the
\* displayed tree by the tree built from the stored comments (and, after a
\* post vote, the post by the stored post).
C16_MutationIsFollowedByReload ==
    [][/\ VoteMutate(1) =>
             frame'[1].pc = (IF frame[1].targetType = "post" THEN "rPost"
                             ELSE "rComments")
       /\ CommentCount(1) => frame'[1].pc = "rComments"
       /\ (/\ frame[1].kind \in ActionKinds
           /\ frame[1].result = "running"
           /\ frame'[1].result = "ok") =>
             /\ frame[1].pc = "rCommentsSet"
             /\ comments' = buildCommentTree(dbComments)
             /\ (frame[1].kind = "vote" /\ frame[1].targetType = "post") =>
                   post' = dbPosts[postId]]_vars

C16_Witness ==
    /\ frame[1].kind = "reply"
    /\ frame[1].result = "ok"
    /\ Len(dbComments) >= 2
    /\ comments = buildCommentTree(dbComments)

\* C17: two clients that have loaded the same post and each submit one
\* comment leave the stored commentCount only one higher than the value both
\* loaded, although two comments were created: each writes its own loaded
\* value plus one, with no version check.
C17_ConcurrentCountLosesUpdate ==
    (/\ frame[1].kind = "comment"
     /\ frame[1].pc \in ReloadPcs
     /\ remote.pc = "done"
     /\ remote.post.commentCount = frame[1].post.commentCount)
    => dbPosts[postId].commentCount = frame[1].post.commentCount + 1

C17_Witness ==
    /\ frame[1].kind = "comment"
    /\ frame[1].pc \in ReloadPcs
    /\ remote.pc = "done"
    /\ remote.post.commentCount = 0 /\ frame[1].post.commentCount = 0
    /\ Len(dbComments) = 2
    /\ dbPosts[postId].commentCount = 1

\* C18: toggleCommentCollapse(id) flips the membership of exactly that id in
\* the collapsed set, leaves every other id as it was, starts no backend call,
\* changes no vote, comment or post record, and applied again to the same id
\* gives back the original set.
C18_CollapseIsPureToggle ==
    [][\A id \in CommentIds :
          ToggleCollapse(id) =>
              /\ (id \in collapsedComments') = (id \notin collapsedComments)
              /\ \A other \in CommentIds \ {id} :
                    (other \in collapsedComments') = (other \in collapsedComments)
              /\ toggleCommentCollapse(id)' = collapsedComments
              /\ \A h \in Slots : ~Running(h)'
              /\ dbVotes' = dbVotes /\ dbComments' = dbComments
              /\ dbPosts' = dbPosts]_vars

C18_Witness ==
    /\ collapsedComments # {}
    /\ \E id \in collapsedComments : id \in Rendered /\ comments.replies[id] # <<>>
    /\ dbVotes # {}

\* The fields of a stored comment that no operation may change.
StoredFields(c) == [id |-> c.id, content |-> c.content, authorId |-> c.authorId,
                    parentId |-> c.parentId, depth |-> c.depth]

\* C19: no operation of the client (comment, reply, vote, collapse, reload)
\* changes the content, author, parent reference or depth of a stored comment:
\* every step leaves the comments already stored as they were and at most
\* appends new ones.
C19_StoredCommentsAreNotRewritten ==
    [][/\ Len(dbComments') >= Len(dbComments)
       /\ \A i \in 1..Len(dbComments) :
             StoredFields(dbComments'[i]) = StoredFields(dbComments[i])]_vars

C19_Witness ==
    /\ Len(dbComments) >= 2
    /\ dbComments[2].parentId = 1
    /\ \E v \in dbVotes : v.targetType = "comment" /\ v.targetId = 1

\* The replies of a rendered, uncollapsed comment are rendered one level
\* under it, whatever its depth.
RepliesRenderedUnderParent ==
    \A id \in Rendered \ collapsedComments :
        \A k \in SeqToSet(comments.replies[id]) :
            k \in Rendered /\ RenderDepth(k) = RenderDepth(id) + 1

\* C20 as stated: the indentation of a rendered comment is 4*d for d < 8 and
\* at least the indentation of depth 7 for every d >= 8, and comments deeper
\* than 8 are still rendered under their parent.
C20_IndentNeverBelowDepthSeven ==
    /\ \A id \in Rendered :
          LET d == RenderDepth(id) IN
          /\ d < 8 => MarginLeft(d) = 4 * d
          /\ d >= 8 => MarginLeft(d) >= MarginLeft(7)
    /\ RepliesRenderedUnderParent

\* C20, amended: the margin of a rendered comment is 4*d for d < 8 and is
\* absent (0) for d >= 8; since a reply is drawn inside its parent, a comment
\* at depth 8 or more is never placed left of a comment at depth 7, and
\* comments deeper than 8 are still rendered under their parent.
C20_MarginDroppedBeyondDepthSeven ==
    /\ \A id \in Rendered :
          LET d == RenderDepth(id) IN
          /\ d < 8 => MarginLeft(d) = 4 * d
          /\ d >= 8 => MarginLeft(d) = 0 /\ Offset(d) >= Offset(7)
    /\ RepliesRenderedUnderParent

C20_Witness ==
    \E id \in Rendered :
        /\ RenderDepth(id) > 8
        /\ comments.replies[id] # <<>>

\* C21: the trending list set from the fetched posts holds at most 20 posts,
\* each of them fetched and created at or after the cutoff of the selected
\* timeframe, in non-increasing order of trending score; a fetched post inside
\* the timeframe is left out only when 20 listed posts score at least as high.
C21_TrendingListIsTopOfTimeframe ==
    trendingLoad.pc = "communities" =>
        LET out == trendingPosts
            fetched == trendingLoad.postsData
            cutoff == trendingLoad.cutoff
        IN  /\ trendingLoad.timeframe = timeframe
            /\ \E month \in MonthHours : cutoff = CutoffHours(timeframe, month)
            /\ Len(out) <= 20
            /\ \A i \in 1..Len(out) :
                  /\ out[i] \in SeqToSet(fetched)
                  /\ out[i].hoursOld <= cutoff
            /\ \A i, j \in 1..Len(out) :
                  i < j => out[i].id # out[j].id /\ ~TrendingLess(out[i], out[j])
            /\ \A k \in 1..Len(fetched) :
                  LET p == fetched[k] IN
                  (p.hoursOld <= cutoff /\ p \notin SeqToSet(out)) =>
                      Cardinality({i \in 1..Len(out) : ~TrendingLess(out[i], p)}) >= 20

C21_Witness ==
    /\ trendingLoad.pc = "communities"
    /\ Len(trendingPosts) = 20
    /\ \E i, j \in 1..20 : TrendingLess(trendingPosts[j], trendingPosts[i])
    /\ \E k \in 1..Len(trendingLoad.postsData) :
          /\ trendingLoad.postsData[k].hoursOld <= trendingLoad.cutoff
          /\ trendingLoad.postsData[k] \notin SeqToSet(trendingPosts)
    /\ \E k \in 1..Len(trendingLoad.postsData) :
          trendingLoad.postsData[k].hoursOld > trendingLoad.cutoff

\* No handler is in flight and the last handler of each slot did not fail.
Settled == \A h \in Slots : ~Running(h) /\ frame[h].result # "failed"

PostVotes(pid, voteType) ==
    {v \in dbVotes : v.targetId = pid /\ v.targetType = "post" /\ v.voteType = voteType}

\* C22: once the vote actions made through the home feed and the post-detail
\* view have completed, the stored upvotes and downvotes of a post equal the
\* numbers of upvote and downvote records that target it.
C22_CountersMatchVoteRecords ==
    Settled =>
        \A pid \in DOMAIN dbPosts :
            /\ dbPosts[pid].upvotes = Cardinality(PostVotes(pid, "upvote"))
            /\ dbPosts[pid].downvotes = Cardinality(PostVotes(pid, "downvote"))

\* C23: the stored upvotes and downvotes of a post are never negative.
C23_CountersNeverNegative ==
    \A pid \in DOMAIN dbPosts :
        dbPosts[pid].upvotes >= 0 /\ dbPosts[pid].downvotes >= 0

\* C24: once every vote in flight has completed, the upvotes and downvotes the
\* home feed displays for a post are the ones stored for it, also when vote
\* handlers overlapped in time.
C24_FeedDisplaysStoredCounters ==
    Settled =>
        \A pid \in DOMAIN feedPosts :
            /\ feedPosts[pid].upvotes = dbPosts[pid].upvotes
            /\ feedPosts[pid].downvotes = dbPosts[pid].downvotes

\* C25: the direction highlighted on a post card matches the vote record of
\* the user for that post: none highlighted iff there is no record, otherwise
\* the direction of the record; also after a click whose backend call failed.
C25_HighlightMatchesRecord ==
    (\A h \in Slots : ~Running(h)) =>
        \A pid \in PostIds :
            LET records == VotesOf(TheUser, pid, "post") IN
            /\ userVote[pid] = "none" <=> records = {}
            /\ \A v \in records : userVote[pid] = v.voteType

\* C26: the unread counter of the application equals the number of loaded
\* notifications that are not read, and is never negative, after any sequence
\* of loadNotifications, markNotificationAsRead and mark-all-as-read, also
\* when the same notification is marked twice before the view re-renders.
C26_UnreadCountMatchesNotifications ==
    /\ unreadCount = Cardinality(Unread(notifications))
    /\ unreadCount >= 0

\* No join, leave or create-post handler is in flight.
MembershipSettled ==
    /\ \A h \in Slots : joinLeave[h].pc = "idle"
    /\ submit.pc = "idle"

\* C27: after any sequence and interleaving of join, leave and create-post
\* (auto-join), the user has at most one membership record in the community
\* and the stored memberCount has moved by +1 per record created and -1 per
\* record deleted.
C27_OneMembershipAndExactCount ==
    MembershipSettled =>
        /\ Cardinality(dbMembers) <= 1
        /\ dbCommunity.memberCount = InitialCommunity.memberCount + Cardinality(dbMembers)

\* C30: handleSubmit creates no post when the title is blank, when no
\* community is selected, or when the upload of the image or video fails: a
\* post is created only by a handler whose title and community were given and
\* whose upload, if it had one, was answered; the handler that stops for one
\* of these reasons writes nothing to the store, leaves the form fields as
\* they are and ends with the loading flag false.
C30_NoPostWithoutTitleCommunityUpload ==
    [][/\ postsCreated' # postsCreated =>
             /\ Trim(submit.title) # ""
             /\ submit.selectedCommunity # NoSelection
             /\ (submit.postType = "image" /\ submit.imageFile) => submit.uploaded
             /\ (submit.postType = "video" /\ submit.videoFile) => submit.uploaded
       /\ (submit'.pc = "idle" /\ submit'.result \in {"rejected", "uploadFailed"}
             /\ submit' # submit) =>
             /\ UNCHANGED memberVars
             /\ UNCHANGED formFields
             /\ ~cpLoading']_vars

C30_Witness ==
    /\ submit.pc = "idle" /\ submit.result = "uploadFailed"
    /\ submit.postType = "video"
    /\ postsCreated = 0 /\ dbMembers = {}
    /\ Trim(title) # "" /\ selectedCommunity = TheCommunity /\ videoFile
    /\ ~cpLoading /\ ~uploading

\* C28: a user who is neither admin nor moderator never makes the moderation
\* dashboard load its data or issue a delete, lock, pin or hide call: the load
\* is skipped, no call reaches the store, and the view rendered is the
\* access-denied one, which has no moderation action.
C28_NoModerationWithoutRole ==
    (~modUser.isAdmin /\ ~modUser.isModerator) =>
        /\ modLoad.pc \in {"mounted", "skipped"}
        /\ postAction.pc = "idle"
        /\ ~modCalled
        /\ modPosts = <<>>
        /\ ModView = "denied"
        /\ \A pid \in ModPostIds, action \in PostActions :
              ~ENABLED ClickPostAction(pid, action)

C28_Witness ==
    /\ ~modUser.isAdmin /\ ~modUser.isModerator
    /\ modLoad.pc = "skipped"
    /\ modNavigated
    /\ \E pid \in DOMAIN dbModPosts : ~dbModPosts[pid].isLocked

\* C29: every load of the post-detail view ends and leaves the loading state,
\* whether the post is found, is missing or a call to the store fails; when
\* the post is not in the store, a load that was answered has requested
\* navigation to 'home', and neither a post nor a comment tree is ever set.
C29_LoadLeavesLoading ==
    /\ \A h \in Slots : LoadRunning(h) ~> ~LoadRunning(h)
    /\ loading ~> ~loading
    /\ [](PostMissing => post = NoPost /\ comments = EmptyTree)
    /\ [](\A h \in Slots :
            (PostMissing /\ frame[h].kind = "mount" /\ frame[h].result = "ok")
                => navigated)

C29_Witness ==
    /\ PostMissing
    /\ dbComments # <<>>
    /\ \E h \in Slots : frame[h].kind = "mount" /\ frame[h].result = "ok"
    /\ navigated
    /\ ~loading

====
